---- MODULE Spec2Model ----
(***************************************************************************)
(* Google Calendar integration servers: the OAuth token lifecycle and the  *)
(* tool-dispatch contract of the four server programs of the repository.   *)
(*                                                                         *)
(*   "mcp"    src/index.js            MCP stdio server + /api/tools/call   *)
(*   "rest"   src/unnamed/part_002    REST routes + /mcp/call              *)
(*   "tools"  src/unnamed/part_001    /tools/call server                   *)
(*   "legacy" src/unnamed/part_000    first MCP stdio server               *)
(*                                                                         *)
(* One behaviour is one process running one of the programs against the    *)
(* upstream calendar; every action is one inbound request handled to its   *)
(* response.                                                               *)
(***************************************************************************)
EXTENDS Integers, Sequences, FiniteSets, TLC

\* ------------------------------------------------------------------ bounds
MaxTime   == 2      \* the clock runs over 1..MaxTime
MaxLife   == 1      \* an issued access token lives 1..MaxLife ticks
MaxTokens == 2      \* access tokens the upstream issues to one process

\* ------------------------------------------------------------- absent values
Absent  == "<undefined>"      \* a missing string-valued property
NoCode  == 0                  \* an Error object without a .code
NoCred  == 0                  \* a client on which setCredentials was never called

Variants == {"mcp", "rest", "tools", "legacy"}

\* -------------------------------------------------------------- credentials
\* A token object as the upstream token endpoint returns it: expiry_date is
\* now + expires_in, or 0 when the response carries no expires_in.
Cred(a, e) == [access_token |-> a, expiry_date |-> e]

\* ------------------------------------------------------------------- errors
\* A JavaScript Error: .code (NoCode when unset) and .message, the message
\* kept as the sequence of the parts it was concatenated from.
Err(c, m) == [code |-> c, message |-> m]

MsgConfig        == "Nao foi possivel carregar as credenciais do Google Calendar"
MsgDestructure   == "Cannot destructure property of undefined"
MsgTokenExpired  == "Token expirado. Faca nova autenticacao."
MsgNotAuth       == "Nao autenticado."
MsgServerNotAuth == "Server not authenticated."
MsgUnknownPt     == "Ferramenta desconhecida: "
MsgUnknownEn     == "Unknown tool: "
MsgMissingCreate == "Missing required fields: summary, start, end"  \* part_001: "... start.dateTime, end.dateTime"
MsgMissingId     == "Missing required field: eventId"
MsgMissingName   == "Missing required field: name"
MsgMissingTool   == "Missing tool name"
MsgNotFoundPt    == "Evento nao encontrado!"
MsgNotFoundEn    == "Event not found"
MsgUpstream      == "<upstream error message>"

Contains(m, part) == \E i \in 1..Len(m) : m[i] = part

\* new Error(`${prefix}${error.message}`): the message is kept, the code is lost
Wrap(prefix, e) == Err(NoCode, <<prefix>> \o e.message)

\* ------------------------------------------------------------------- state
VARIABLES
    variant,          \* which server program this process runs
    credEnv,          \* GOOGLE_CALENDAR_CREDENTIALS: what the variable holds
    credFile,         \* gcp-oauth-keys.json: what the file holds
    env,              \* RENDER_EXTERNAL_URL, BASE_URL, PORT, GOOGLE_REDIRECT_URI
    race,             \* the requests in flight inside getAuthenticatedClient
    envToken,         \* GOOGLE_CALENDAR_TOKEN (legacy): <<>> or <<token>>
    tokens,           \* this.tokens, the Map: a function on {} or {"default"}
    serverTokens,     \* part_001: let serverTokens (<<>> is the initial {})
    isAuthenticated,  \* part_001: let isAuthenticated
    now,              \* Date.now()
    nextTok,          \* access tokens this process has been issued so far
    events,           \* the upstream calendar: event id -> event resource
    req,              \* the request handled last
    calls,            \* the upstream calls that request issued, in order
    resp,             \* the response it got
    act               \* the action taken last

vars == <<variant, credEnv, credFile, env, envToken, race, tokens, serverTokens, isAuthenticated,
          now, nextTok, events, req, calls, resp, act>>

\* What a credentials source holds: nothing (the variable unset, the file
\* missing), text that is not JSON, JSON without `web` or `installed`, JSON
\* whose `web` lacks client_id and client_secret, or the expected document.
Sources == {"unset", "garbage", "noshape", "nofields", "valid"}

\* The environment variables the redirect URI is made of (Absent: not set).
Env(render, base, port, redirect) ==
    [RENDER_EXTERNAL_URL |-> render, BASE_URL |-> base, PORT |-> port,
     GOOGLE_REDIRECT_URI |-> redirect]
NoEnv == Env(Absent, Absent, Absent, Absent)
Envs ==
    { Env(r, b, p, g) : r \in {Absent, "https://render"}, b \in {Absent, "https://base"},
                        p \in {Absent, "8080"}, g \in {Absent, "https://redirect"} }

\* the <<credEnv, credFile>> the servers are run with
ConfigStates == {<<"valid", "unset">>, <<"unset", "unset">>, <<"noshape", "unset">>}

\* ------------------------------------------------------- upstream resources
Time(d, z) == [dateTime |-> d, timeZone |-> z]
NoTime     == Time(Absent, Absent)

Event(s, d, l, st, en, at) ==
    [summary |-> s, description |-> d, location |-> l,
     start |-> st, end |-> en, attendees |-> at]
NoResource == Event(Absent, Absent, Absent, NoTime, NoTime, <<>>)

EventIds == {"e1"}
NoId     == Absent

\* One upstream call as the handler issued it, with the status the upstream
\* answered (0: the call went through).
\* maxResults is <<n>> on an events.list call and <<>> on every other;
\* redirect_uri is the redirect URI of the client on a code exchange.
Call(api, cred, id, resource, status) ==
    [api |-> api, cred |-> cred, id |-> id, resource |-> resource, status |-> status,
     maxResults |-> <<>>, redirect_uri |-> <<>>]

CalendarApis == {"list", "insert", "get", "update", "delete", "calendarList"}

\* What the upstream answers beyond what the store decides: 0 lets the call
\* through, anything else is the status code of the failure it reports.
UpCodes == {0, 401, 500}

UpErr(code) == Err(code, <<MsgUpstream>>)

FreeIds == EventIds \ DOMAIN events
NewId   == CHOOSE i \in FreeIds : TRUE

\* A call fails with the injected code, with 401 when the client carries no
\* credential, with 404 when it names an event the calendar does not hold.
\* events.insert and events.update take a whole resource; the upstream
\* rejects one without a start or an end instant.
Instant(t) == t.dateTime # Absent /\ t.dateTime # ""
Acceptable(resource) == Instant(resource.start) /\ Instant(resource.end)

\* A call fails with the injected code, with 401 when the client carries no
\* credential, with 400 when a required parameter or instant is missing or
\* the calendar is full, with 404 when it names an event the calendar does
\* not hold.
UpFailure(api, cred, id, resource, u) ==
    IF u # 0 THEN u
    ELSE IF cred = NoCred THEN 401
    ELSE IF api \in {"get", "update", "delete"} /\ id = NoId THEN 400
    ELSE IF api \in {"get", "update", "delete"} /\ id \notin DOMAIN events THEN 404
    ELSE IF api \in {"insert", "update"} /\ ~Acceptable(resource) THEN 400
    ELSE IF api = "insert" /\ FreeIds = {} THEN 403
    ELSE 0

\* A calendar call and the upstream's answer to it.
Ask(api, cred, id, resource, u) ==
    Call(api, cred, id, resource, UpFailure(api, cred, id, resource, u))

\* events.list with the maxResults sent: the upstream rejects a page size
\* below one.
AskList(cred, max, u) ==
    [Call("list", cred, NoId, NoResource,
          IF u # 0 THEN u ELSE IF cred = NoCred THEN 401 ELSE IF max < 1 THEN 400 ELSE 0)
       EXCEPT !.maxResults = <<max>>]

\* The stored events in the order the upstream lists them.
RECURSIVE InOrder(_)
InOrder(ids) ==
    IF ids = {} THEN <<>>
    ELSE LET i == CHOOSE j \in ids : TRUE
         IN <<[id |-> i, event |-> events[i]]>> \o InOrder(ids \ {i})

\* response.data.items: the requests of the model ask for windows that hold
\* every stored event, so the answer is the first `max` of them; with nothing
\* to list the upstream may leave `items` out (given = FALSE).
Items(given, list) == [given |-> given, list |-> list]
Listed(max, bare) ==
    LET all == InOrder(DOMAIN events) IN
    IF all = <<>> /\ bare THEN Items(FALSE, <<>>)
    ELSE Items(TRUE, SubSeq(all, 1, IF max < Len(all) THEN max ELSE Len(all)))


\* ------------------------------------------------------------ tool requests
\* A date argument: the property may be missing (given = FALSE); the string
\* servers read it as the string dateTime, part_001 as {dateTime, timeZone}.
TimeArg(g, d, z) == [given |-> g, dateTime |-> d, timeZone |-> z]
NoTimeArg  == TimeArg(FALSE, Absent, Absent)
StrTime(d) == TimeArg(TRUE, d, Absent)
StrOf(t)   == IF t.given THEN t.dateTime ELSE Absent

\* maxResults is <<>> when the caller leaves it out and <<n>> otherwise.
Args(id, s, d, l, st, en, at) ==
    [eventId |-> id, summary |-> s, description |-> d, location |-> l,
     start |-> st, end |-> en, attendees |-> at, maxResults |-> <<>>]
NoArgs == Args(NoId, Absent, Absent, Absent, NoTimeArg, NoTimeArg, <<>>)

Truthy(x) == x # Absent /\ x # ""

McpNames   == {"get_auth_url", "get_auth_status", "list_events",
               "create_event", "delete_event", "update_event"}
ToolsNames == {"list_calendar_events", "create_calendar_event",
               "update_calendar_event", "delete_calendar_event"}
UnknownNames == {"no_such_tool"}

\* The fixed catalog each program dispatches on.
Catalog(v) ==
    CASE v = "mcp"    -> McpNames
      [] v = "rest"   -> McpNames
      [] v = "tools"  -> ToolsNames
      [] v = "legacy" -> McpNames \ {"get_auth_status"}

\* ---------------------------------------------------------------- responses
\* The consent URL generateAuthUrl builds, by its query parameters.
Url(client, redirect, access, scope, prompt) ==
    [client_id |-> client, redirect_uri |-> redirect, access_type |-> access,
     scope |-> scope, prompt |-> prompt]
NoUrl == Url(Absent, <<>>, Absent, {}, Absent)

ScopeCalendar == "https://www.googleapis.com/auth/calendar"
ScopeEvents   == "https://www.googleapis.com/auth/calendar.events"

\* A redirect URI is the sequence of the texts it is put together from.
\* `http://localhost:${process.env.PORT || dflt}`
Localhost(dflt) == <<"http://localhost:", IF env.PORT # Absent THEN env.PORT ELSE dflt>>

\* index.js getAuthPage: `${serverUrl}/auth/callback`
PageRedirect ==
    (IF env.RENDER_EXTERNAL_URL # Absent THEN <<env.RENDER_EXTERNAL_URL>>
     ELSE Localhost("10000")) \o <<"/auth/callback">>
\* index.js handleAuthCallback: `${serverUrl}/auth/callback`
CallbackRedirect ==
    (IF env.RENDER_EXTERNAL_URL # Absent THEN <<env.RENDER_EXTERNAL_URL>>
     ELSE Localhost("10000")) \o <<"/auth/callback">>
\* part_002 GET /auth/url: `${baseUrl}/auth/callback`
UrlRouteRedirect ==
    (IF env.RENDER_EXTERNAL_URL # Absent THEN <<env.RENDER_EXTERNAL_URL>>
     ELSE IF env.BASE_URL # Absent THEN <<env.BASE_URL>>
     ELSE Localhost("3000")) \o <<"/auth/callback">>
\* CallbackRouteRedirect without the BASE_URL alternative
CallbackRouteRedirect_NoBaseUrl ==
    (IF env.RENDER_EXTERNAL_URL # Absent THEN <<env.RENDER_EXTERNAL_URL>>
     ELSE Localhost("3000")) \o <<"/auth/callback">>
\* part_002 GET /auth/callback: `${baseUrl}/auth/callback`
CallbackRouteRedirect ==
    (IF env.RENDER_EXTERNAL_URL # Absent THEN <<env.RENDER_EXTERNAL_URL>>
     ELSE IF env.BASE_URL # Absent THEN <<env.BASE_URL>>
     ELSE Localhost("3000")) \o <<"/auth/callback">>

\* `${serverUrl}/auth/callback` of the program that runs
RedirectServer == IF variant = "rest" THEN UrlRouteRedirect ELSE PageRedirect
\* redirect_uris[0] of the credentials document
RedirectFirst  == <<"redirect_uris[0]">>
\* process.env.GOOGLE_CLIENT_ID and process.env.GOOGLE_REDIRECT_URI
EnvClientId == "GOOGLE_CLIENT_ID"
EnvRedirect ==
    IF env.GOOGLE_REDIRECT_URI # Absent THEN <<env.GOOGLE_REDIRECT_URI>>
    ELSE <<IF env.RENDER_EXTERNAL_URL # Absent THEN env.RENDER_EXTERNAL_URL
           ELSE "http://localhost:3000", "/auth/callback">>

\* One event as a list response shows it.
Entry(id, s, st, en) == [id |-> id, summary |-> s, start |-> st, end |-> en]

\* The structured part of a result: the consent URL, the events listed, the
\* tool catalog.
Data(url, items, tools) == [url |-> url, items |-> items, tools |-> tools]
NoData == Data(NoUrl, <<>>, {})

\* A response body: the `success` flag ("absent" when the body has none), the
\* `error` message (<<>> when the body has none), the result text and the
\* structured data.
BodyWith(success, error, text, data) ==
    [success |-> success, error |-> error, text |-> text, data |-> data]
Body(success, error, text) == BodyWith(success, error, text, NoData)
NoBody == Body("absent", <<>>, <<>>)

\* status is the HTTP status (0 on stdio), mcpCode the McpError code thrown
\* on stdio, inner the body /mcp/call got from the route it forwarded to.
Resp(status, mcpCode, body, inner) ==
    [status |-> status, mcpCode |-> mcpCode, body |-> body, inner |-> inner]
NoResp == Resp(0, "none", NoBody, NoBody)

TxtNoEvents == "Nenhum evento encontrado."
TxtEvents   == "Eventos encontrados:"
TxtCreated  == "Evento criado com sucesso!"
TxtDeleted  == "Evento deletado com sucesso!"
TxtUpdated  == "Evento atualizado com sucesso!"
TxtAuthPage == "Para autenticar com o Google Calendar: /auth"
TxtAuthUrl  == "auth_url"
TxtAuthYes  == "Autenticado com sucesso!"
TxtAuthNo   == "Nao autenticado. Use get_auth_url"

\* What a handler hands back to its transport: a returned result text or a
\* thrown error.
NoErr == Err(NoCode, <<>>)
ReturnWith(text, data) == [ok |-> TRUE, text |-> text, error |-> NoErr, data |-> data]
Return(text) == ReturnWith(text, NoData)
Throw(e)     == [ok |-> FALSE, text |-> <<>>, error |-> e, data |-> NoData]

\* A handler run: its outcome, the credential store, the upstream calendar
\* and the token counter it leaves, and the upstream calls it issued.
Run(out, tk, n, ev, cl) ==
    [out |-> out, tokens |-> tk, nextTok |-> n, events |-> ev, calls |-> cl]

\* The upstream's part in one request: whether a refresh succeeds, the
\* lifetime of the token it issues (0: no expires_in) and the failure it
\* injects into the first and the second calendar call (the second is
\* reached only when the first went through).
Oracle(rf, life, u1, u2) ==
    [rf |-> rf, life |-> life, u1 |-> u1, u2 |-> u2, bare |-> FALSE]

\* a token grant refused, or given with a lifetime
Grants == {<<FALSE, 0>>} \cup ({TRUE} \X (0..MaxLife))


\* ------------------------------------------------------ credential loading
\* getCredentials and the destructuring of `credentials.web ||
\* credentials.installed` that follows every call of it: NoErr, or the error
\* thrown.
\* getCredentials itself: the variable when it is set, the file otherwise;
\* whatever parses is returned as it is, and every failure (no file, text
\* that is not JSON) becomes the one error of the catch.
Loaded(ok, from, content) == [ok |-> ok, from |-> from, content |-> content]
readCredentials ==
    IF credEnv # "unset"
    THEN IF credEnv = "garbage" THEN Loaded(FALSE, "env", Absent)
                                ELSE Loaded(TRUE, "env", credEnv)
    ELSE IF credFile \in {"unset", "garbage"} THEN Loaded(FALSE, "file", Absent)
                                              ELSE Loaded(TRUE, "file", credFile)

\* what the callers of getCredentials end up with: "missing" when it threw,
\* the shape of the document otherwise
config == IF readCredentials.ok THEN readCredentials.content ELSE "missing"

\* client_id of `credentials.web || credentials.installed`
ClientId == IF config = "valid" THEN "client_id" ELSE Absent

getCredentials ==
    CASE config = "missing" -> Err(NoCode, <<MsgConfig>>)
      [] config = "noshape" -> Err(NoCode, <<MsgDestructure>>)
      [] OTHER              -> NoErr

\* ------------------------------------------------------ requests in flight
\* Two requests may be inside a handler at once. Of each one: where it waits
\* (idle, refreshing: awaiting refreshAccessToken, calling: awaiting the
\* calendar call) and the credential its client was given. Beside them, the
\* credentials the upstream has issued and those the store has held.
Reqs == {1, 2}
Race(pc, held, issued, stored) ==
    [pc |-> pc, held |-> held, issued |-> issued, stored |-> stored]
NoRace == Race([r \in Reqs |-> "idle"], [r \in Reqs |-> Cred(NoCred, 0)], {}, {})

\* ---------------------------------------------------------- token manager
NoExpiry == 0
Stored   == "default" \in DOMAIN tokens
NoTokens == [k \in {} |-> Cred(NoCred, NoExpiry)]
Store(c) == [k \in {"default"} |-> c]

\* token.expiry_date && token.expiry_date <= Date.now()
NeedsRefresh(token) == token.expiry_date # NoExpiry /\ token.expiry_date <= now

Expiry(life) == IF life = 0 THEN NoExpiry ELSE now + life

\* oAuth2Client.refreshAccessToken(): the upstream grants a new access token
\* or refuses.
RefreshGranted(token, o) == o.rf /\ nextTok < MaxTokens
Refreshed(token, o) == Cred(nextTok + 1, Expiry(o.life))

\* What getAuthenticatedClient leaves: the client's credential (cred) or the
\* error thrown, the token store, the token counter and the calls issued.
Client(ok, e, cred, tk, n, cl) ==
    [ok |-> ok, error |-> e, cred |-> cred, tokens |-> tk, nextTok |-> n, calls |-> cl]

\* getAuthenticatedClient with the tokens.delete of a refused refresh left out
getAuthenticatedClient_KeepStale(o) ==
    IF getCredentials # NoErr
    THEN Client(FALSE, getCredentials, NoCred, tokens, nextTok, <<>>)
    ELSE IF ~Stored
    THEN Client(FALSE, Err(NoCode, <<MsgNotAuth>>), NoCred, tokens, nextTok, <<>>)
    ELSE LET token == tokens["default"] IN
         IF NeedsRefresh(token)
         THEN LET rc == Call("refresh", token.access_token, NoId, NoResource,
                            IF RefreshGranted(token, o) THEN 0 ELSE 400) IN
              IF RefreshGranted(token, o)
              THEN Client(TRUE, NoErr, Refreshed(token, o).access_token,
                          Store(Refreshed(token, o)), nextTok + 1, <<rc>>)
              ELSE Client(FALSE, Err(NoCode, <<MsgTokenExpired>>), NoCred,
                          tokens, nextTok, <<rc>>)
         ELSE Client(TRUE, NoErr, token.access_token, tokens, nextTok, <<>>)

\* getAuthenticatedClient with the client left on the expired credential
\* after a granted refresh
getAuthenticatedClient_UseOld(o) ==
    IF getCredentials # NoErr
    THEN Client(FALSE, getCredentials, NoCred, tokens, nextTok, <<>>)
    ELSE IF ~Stored
    THEN Client(FALSE, Err(NoCode, <<MsgNotAuth>>), NoCred, tokens, nextTok, <<>>)
    ELSE LET token == tokens["default"] IN
         IF NeedsRefresh(token)
         THEN LET rc == Call("refresh", token.access_token, NoId, NoResource,
                            IF RefreshGranted(token, o) THEN 0 ELSE 400) IN
              IF RefreshGranted(token, o)
              THEN Client(TRUE, NoErr, token.access_token,
                          Store(Refreshed(token, o)), nextTok + 1, <<rc>>)
              ELSE Client(FALSE, Err(NoCode, <<MsgTokenExpired>>), NoCred,
                          NoTokens, nextTok, <<rc>>)
         ELSE Client(TRUE, NoErr, token.access_token, tokens, nextTok, <<>>)

\* index.js and part_002 getAuthenticatedClient (the two differ in the
\* redirect URI and in the wording after "Nao autenticado.").
getAuthenticatedClient(o) ==
    IF getCredentials # NoErr
    THEN Client(FALSE, getCredentials, NoCred, tokens, nextTok, <<>>)
    ELSE IF ~Stored
    THEN Client(FALSE, Err(NoCode, <<MsgNotAuth>>), NoCred, tokens, nextTok, <<>>)
    ELSE LET token == tokens["default"] IN
         IF NeedsRefresh(token)
         THEN LET rc == Call("refresh", token.access_token, NoId, NoResource,
                            IF RefreshGranted(token, o) THEN 0 ELSE 400) IN
              IF RefreshGranted(token, o)
              THEN Client(TRUE, NoErr, Refreshed(token, o).access_token,
                          Store(Refreshed(token, o)), nextTok + 1, <<rc>>)
              ELSE Client(FALSE, Err(NoCode, <<MsgTokenExpired>>), NoCred,
                          NoTokens, nextTok, <<rc>>)
         ELSE Client(TRUE, NoErr, token.access_token, tokens, nextTok, <<>>)

\* part_000 getAuthenticatedClient: the client carries GOOGLE_CALENDAR_TOKEN
\* when the variable is set and no credential otherwise; it never throws for
\* a missing token.
getAuthenticatedClientLegacy ==
    IF getCredentials # NoErr
    THEN Client(FALSE, getCredentials, NoCred, tokens, nextTok, <<>>)
    ELSE IF envToken # <<>>
    THEN Client(TRUE, NoErr, envToken[1].access_token, tokens, nextTok, <<>>)
    ELSE Client(TRUE, NoErr, NoCred, tokens, nextTok, <<>>)

\* this.getAuthenticatedClient() of the program that runs
AuthClient(o) ==
    IF variant = "legacy" THEN getAuthenticatedClientLegacy
    ELSE getAuthenticatedClient(o)

\* --------------------------------------- index.js / part_000 tool handlers
PfxList   == "Erro ao listar eventos: "
PfxCreate == "Erro ao criar evento: "
PfxDelete == "Erro ao deletar evento: "
PfxUpdate == "Erro ao atualizar evento: "
PfxAuthUrl == "Erro ao gerar URL de autenticacao: "

\* index.js getAuthUrl: a fixed text pointing at the /auth page
getAuthUrl == Run(Return(<<TxtAuthPage>>), tokens, nextTok, events, <<>>)

\* part_000 getAuthUrl: builds the consent URL from the loaded credentials
getAuthUrlLegacy ==
    IF getCredentials # NoErr
    THEN Run(Throw(Wrap(PfxAuthUrl, getCredentials)), tokens, nextTok, events, <<>>)
    ELSE Run(ReturnWith(<<TxtAuthUrl>>,
                        Data(Url(ClientId, RedirectFirst, "offline", {ScopeCalendar}, Absent),
                             <<>>, {})),
             tokens, nextTok, events, <<>>)

\* getAuthStatus with the stored credential dropped on the way
getAuthStatus_Forget ==
    Run(Return(<<IF Stored THEN TxtAuthYes ELSE TxtAuthNo>>),
        NoTokens, nextTok, events, <<>>)

\* getAuthStatus reporting a credential only while it has not expired
getAuthStatus_ByExpiry ==
    Run(Return(<<IF Stored /\ ~NeedsRefresh(tokens["default"])
                 THEN TxtAuthYes ELSE TxtAuthNo>>),
        tokens, nextTok, events, <<>>)

\* index.js getAuthStatus
getAuthStatus ==
    Run(Return(<<IF Stored THEN TxtAuthYes ELSE TxtAuthNo>>),
        tokens, nextTok, events, <<>>)

\* index.js GET /status: { authenticated: this.tokens.has('default') }
GetStatus ==
    Run(Resp(200, "none",
             Body("absent", <<>>, <<IF Stored THEN "authenticated" ELSE "not_authenticated">>),
             NoBody),
        tokens, nextTok, events, <<>>)

\* index.js getAuthPage, served on GET /auth. The 200 header is written before
\* the page is built, so when the credentials do not load the handler's catch
\* cannot write its 500 and nothing is sent.
TxtAuthHtml == "Autenticar com Google"
getAuthPage ==
    IF getCredentials # NoErr
    THEN Run(Resp(0, "none", Body("absent", getCredentials.message, <<>>), NoBody),
             tokens, nextTok, events, <<>>)
    ELSE Run(Resp(200, "none",
                  BodyWith("absent", <<>>, <<TxtAuthHtml>>,
                           Data(Url(ClientId, PageRedirect, "offline",
                                    {ScopeCalendar}, "consent"), <<>>, {})),
                  NoBody),
             tokens, nextTok, events, <<>>)

\* The ListTools handler of index.js and part_000
ListToolsHandler ==
    Run(Resp(0, "none", BodyWith("absent", <<>>, <<>>, Data(NoUrl, <<>>, Catalog(variant))),
             NoBody),
        tokens, nextTok, events, <<>>)

\* args.maxResults || 10
DefaultMax == 10
MaxOrDefault(m) == IF m = <<>> \/ m = <<0>> THEN DefaultMax ELSE m[1]

\* OrEmpty with a left-out `items` read as one untitled event
OrEmpty_Phantom(items) ==
    IF items.given THEN items.list ELSE <<[id |-> Absent, event |-> NoResource]>>

\* response.data.items || []
OrEmpty(items) == IF items.given THEN items.list ELSE <<>>

\* DateTimeOf reading only the `date` of an all-day event
DateTimeOf_DateOnly(t) == Absent

\* event.start.dateTime || event.start.date (the model's events are timed)
DateTimeOf(t) == t.dateTime

\* one block of the events text: id, title, start, end
Line(it) ==
    Entry(it.id, it.event.summary, DateTimeOf(it.event.start), DateTimeOf(it.event.end))

listEvents(args, o) ==
    LET a == AuthClient(o) IN
    IF ~a.ok
    THEN Run(Throw(Wrap(PfxList, a.error)), a.tokens, a.nextTok, events, a.calls)
    ELSE LET max == MaxOrDefault(args.maxResults)
             c == AskList(a.cred, max, o.u1)
             f == c.status
             found == OrEmpty(Listed(max, o.bare))
         IN IF f # 0
            THEN Run(Throw(Wrap(PfxList, UpErr(f))),
                     a.tokens, a.nextTok, events, a.calls \o <<c>>)
            ELSE IF Len(found) = 0
            THEN Run(Return(<<TxtNoEvents>>), a.tokens, a.nextTok, events,
                     a.calls \o <<c>>)
            ELSE Run(ReturnWith(<<TxtEvents>>,
                                Data(NoUrl, [i \in 1..Len(found) |-> Line(found[i])], {})),
                     a.tokens, a.nextTok, events, a.calls \o <<c>>)

\* The resource createEvent builds: no check of summary, start or end.
createResource(args) ==
    Event(args.summary, args.description, args.location,
          Time(StrOf(args.start), Absent), Time(StrOf(args.end), Absent), <<>>)

createEvent(args, o) ==
    LET a == AuthClient(o) IN
    IF ~a.ok
    THEN Run(Throw(Wrap(PfxCreate, a.error)), a.tokens, a.nextTok, events, a.calls)
    ELSE LET r == createResource(args)
             c == Ask("insert", a.cred, NoId, r, o.u1)
             f == c.status
         IN IF f # 0
            THEN Run(Throw(Wrap(PfxCreate, UpErr(f))),
                     a.tokens, a.nextTok, events, a.calls \o <<c>>)
            ELSE Run(Return(<<TxtCreated>>), a.tokens, a.nextTok,
                     events @@ (NewId :> r), a.calls \o <<c>>)

Without(id) == [i \in DOMAIN events \ {id} |-> events[i]]

\* deleteEvent asking for the event a second time when the first get fails
deleteEvent_RetryGet(args, o) ==
    LET a == AuthClient(o) IN
    IF ~a.ok
    THEN Run(Throw(Wrap(PfxDelete, a.error)), a.tokens, a.nextTok, events, a.calls)
    ELSE LET id == args.eventId
             g  == Ask("get", a.cred, id, NoResource, o.u1)
             f1 == g.status
             d  == Ask("delete", a.cred, id, NoResource, o.u2)
             f2 == d.status
         IN IF f1 = 404
            THEN Run(Return(<<MsgNotFoundPt>>), a.tokens, a.nextTok, events,
                     a.calls \o <<g>>)
            ELSE IF f1 # 0
            THEN Run(Throw(Wrap(PfxDelete, UpErr(f1))), a.tokens, a.nextTok, events,
                     a.calls \o <<g, g>>)
            ELSE IF f2 = 404
            THEN Run(Return(<<MsgNotFoundPt>>), a.tokens, a.nextTok, events,
                     a.calls \o <<g, d>>)
            ELSE IF f2 # 0
            THEN Run(Throw(Wrap(PfxDelete, UpErr(f2))), a.tokens, a.nextTok, events,
                     a.calls \o <<g, d>>)
            ELSE Run(Return(<<TxtDeleted>>), a.tokens, a.nextTok, Without(id),
                     a.calls \o <<g, d>>)

\* index.js and part_000 deleteEvent
deleteEvent(args, o) ==
    LET a == AuthClient(o) IN
    IF ~a.ok
    THEN Run(Throw(Wrap(PfxDelete, a.error)), a.tokens, a.nextTok, events, a.calls)
    ELSE LET id == args.eventId
             g  == Ask("get", a.cred, id, NoResource, o.u1)
             f1 == g.status
             d  == Ask("delete", a.cred, id, NoResource, o.u2)
             f2 == d.status
         IN IF f1 = 404
            THEN Run(Return(<<MsgNotFoundPt>>), a.tokens, a.nextTok, events,
                     a.calls \o <<g>>)
            ELSE IF f1 # 0
            THEN Run(Throw(Wrap(PfxDelete, UpErr(f1))), a.tokens, a.nextTok, events,
                     a.calls \o <<g>>)
            ELSE IF f2 = 404
            THEN Run(Return(<<MsgNotFoundPt>>), a.tokens, a.nextTok, events,
                     a.calls \o <<g, d>>)
            ELSE IF f2 # 0
            THEN Run(Throw(Wrap(PfxDelete, UpErr(f2))), a.tokens, a.nextTok, events,
                     a.calls \o <<g, d>>)
            ELSE Run(Return(<<TxtDeleted>>), a.tokens, a.nextTok, Without(id),
                     a.calls \o <<g, d>>)

\* updatedEvent keeping the fetched description and location when given empty
updatedEvent_EmptyKeeps(args, current) ==
    Event(IF Truthy(args.summary) THEN args.summary ELSE current.summary,
          IF Truthy(args.description) THEN args.description ELSE current.description,
          IF Truthy(args.location) THEN args.location ELSE current.location,
          IF Truthy(StrOf(args.start)) THEN Time(StrOf(args.start), Absent)
                                       ELSE current.start,
          IF Truthy(StrOf(args.end)) THEN Time(StrOf(args.end), Absent)
                                     ELSE current.end,
          <<>>)

\* The resource updateEvent (index.js, part_000) and PUT /calendar/events/:id
\* (part_002) write: summary, start and end fall back to the fetched event
\* when falsy, description and location when undefined; attendees are not
\* carried over.
updatedEvent(args, current) ==
    Event(IF Truthy(args.summary) THEN args.summary ELSE current.summary,
          IF args.description # Absent THEN args.description ELSE current.description,
          IF args.location # Absent THEN args.location ELSE current.location,
          IF Truthy(StrOf(args.start)) THEN Time(StrOf(args.start), Absent)
                                       ELSE current.start,
          IF Truthy(StrOf(args.end)) THEN Time(StrOf(args.end), Absent)
                                     ELSE current.end,
          <<>>)

updateEvent(args, o) ==
    LET a == AuthClient(o) IN
    IF ~a.ok
    THEN Run(Throw(Wrap(PfxUpdate, a.error)), a.tokens, a.nextTok, events, a.calls)
    ELSE LET id == args.eventId
             g  == Ask("get", a.cred, id, NoResource, o.u1)
             f1 == g.status
         IN IF f1 = 404
            THEN Run(Return(<<MsgNotFoundPt>>), a.tokens, a.nextTok, events,
                     a.calls \o <<g>>)
            ELSE IF f1 # 0
            THEN Run(Throw(Wrap(PfxUpdate, UpErr(f1))), a.tokens, a.nextTok, events,
                     a.calls \o <<g>>)
            ELSE LET r  == updatedEvent(args, events[id])
                     w  == Ask("update", a.cred, id, r, o.u2)
                     f2 == w.status
                 IN IF f2 = 404
                    THEN Run(Return(<<MsgNotFoundPt>>), a.tokens, a.nextTok, events,
                             a.calls \o <<g, w>>)
                    ELSE IF f2 # 0
                    THEN Run(Throw(Wrap(PfxUpdate, UpErr(f2))), a.tokens, a.nextTok,
                             events, a.calls \o <<g, w>>)
                    ELSE Run(Return(<<TxtUpdated>>), a.tokens, a.nextTok,
                             [events EXCEPT ![id] = r], a.calls \o <<g, w>>)

\* The switch of the CallToolRequestSchema handler and of callTool: the
\* handler of a catalog name, or the unknown-tool error carrying the name.
Dispatch(name, args, o) ==
    CASE name \notin Catalog(variant) ->
            Run(Throw(Err(NoCode, <<MsgUnknownPt, name>>)), tokens, nextTok, events, <<>>)
      [] name = "get_auth_url" ->
            IF variant = "legacy" THEN getAuthUrlLegacy ELSE getAuthUrl
      [] name = "get_auth_status" -> getAuthStatus
      [] name = "list_events"   -> listEvents(args, o)
      [] name = "create_event"  -> createEvent(args, o)
      [] name = "delete_event"  -> deleteEvent(args, o)
      [] name = "update_event"  -> updateEvent(args, o)

\* CallToolRequestSchema handler: a returned result goes out as it is; every
\* error thrown in the switch, the MethodNotFound of the default branch
\* included, is caught and rethrown as McpError(InternalError).
PfxExec == "Erro ao executar "
StdioResponse(name, out) ==
    IF out.ok
    THEN Resp(0, "none", BodyWith("absent", <<>>, out.text, out.data), NoBody)
    ELSE Resp(0, "InternalError",
              Body("absent", <<PfxExec, name, ": ">> \o out.error.message, <<>>), NoBody)

\* POST /api/tools/call: 200 {success: true, data} or 400 {success: false, error}
ApiResponse(out) ==
    IF out.ok
    THEN Resp(200, "none", BodyWith("true", <<>>, out.text, out.data), NoBody)
    ELSE Resp(400, "none", Body("false", out.error.message, <<>>), NoBody)

\* ------------------------------------------------------- part_002 REST routes
\* res.status(error.code === 401 ? 401 : 500).json({ error: error.message })
RestFail(e) ==
    Resp(IF e.code = 401 THEN 401 ELSE 500, "none",
         Body("absent", e.message, <<>>), NoBody)
RestOkWith(success, text, data) ==
    Resp(200, "none", BodyWith(success, <<>>, text, data), NoBody)
RestOk(success, text) == RestOkWith(success, text, NoData)

\* AuthUrlRoute asking for online access once a credential is stored
AuthUrlRoute_OnlineWhenStored ==
    IF getCredentials # NoErr
    THEN Run(Resp(500, "none", Body("absent", getCredentials.message, <<>>), NoBody),
             tokens, nextTok, events, <<>>)
    ELSE Run(RestOkWith("absent", <<TxtAuthUrl>>,
                        Data(Url(ClientId, UrlRouteRedirect,
                                 IF Stored THEN "online" ELSE "offline",
                                 {ScopeCalendar}, "consent"), <<>>, {})),
             tokens, nextTok, events, <<>>)

\* GET /mcp/tools
GetMcpTools ==
    Run(RestOkWith("absent", <<>>, Data(NoUrl, <<>>, Catalog("rest"))),
        tokens, nextTok, events, <<>>)

\* GET /auth/url and GET /auth/status
AuthUrlRoute ==
    IF getCredentials # NoErr
    THEN Run(Resp(500, "none", Body("absent", getCredentials.message, <<>>), NoBody),
             tokens, nextTok, events, <<>>)
    ELSE Run(RestOkWith("absent", <<TxtAuthUrl>>,
                        Data(Url(ClientId, UrlRouteRedirect, "offline",
                                 {ScopeCalendar}, "consent"), <<>>, {})),
             tokens, nextTok, events, <<>>)

AuthStatusRoute ==
    Run(RestOk("absent", <<IF Stored THEN "ready" ELSE "authentication_required">>),
        tokens, nextTok, events, <<>>)

\* GET /calendar/events
GetEventsRoute(args, o) ==
    LET a == getAuthenticatedClient(o) IN
    IF ~a.ok
    THEN Run(RestFail(a.error), a.tokens, a.nextTok, events, a.calls)
    ELSE LET max == IF args.maxResults = <<>> THEN DefaultMax ELSE args.maxResults[1]
             c == AskList(a.cred, max, o.u1)
             f == c.status
             found == OrEmpty(Listed(max, o.bare))
         IN IF f # 0
            THEN Run(RestFail(UpErr(f)), a.tokens, a.nextTok, events, a.calls \o <<c>>)
            ELSE Run(RestOkWith("absent", <<"events">>,
                                Data(NoUrl, [i \in 1..Len(found) |-> Line(found[i])], {})),
                     a.tokens, a.nextTok, events, a.calls \o <<c>>)

\* POST /calendar/events with the check of the required fields moved behind
\* the insert
PostEventRoute_ValidateLate(args, o) ==
    LET a == getAuthenticatedClient(o) IN
    IF ~a.ok
    THEN Run(RestFail(a.error), a.tokens, a.nextTok, events, a.calls)
    ELSE LET r == createResource(args)
             c == Ask("insert", a.cred, NoId, r, o.u1)
             f == c.status
         IN IF ~Truthy(args.summary) \/ ~Truthy(StrOf(args.start)) \/ ~Truthy(StrOf(args.end))
            THEN Run(Resp(400, "none", Body("absent", <<MsgMissingCreate>>, <<>>), NoBody),
                     a.tokens, a.nextTok, events, a.calls \o <<c>>)
            ELSE IF f # 0
            THEN Run(RestFail(UpErr(f)), a.tokens, a.nextTok, events, a.calls \o <<c>>)
            ELSE Run(RestOk("true", <<"event">>), a.tokens, a.nextTok,
                     events @@ (NewId :> r), a.calls \o <<c>>)

\* POST /calendar/events: the client is obtained first, the body checked next
PostEventRoute(args, o) ==
    LET a == getAuthenticatedClient(o) IN
    IF ~a.ok
    THEN Run(RestFail(a.error), a.tokens, a.nextTok, events, a.calls)
    ELSE IF ~Truthy(args.summary) \/ ~Truthy(StrOf(args.start)) \/ ~Truthy(StrOf(args.end))
    THEN Run(Resp(400, "none", Body("absent", <<MsgMissingCreate>>, <<>>), NoBody),
             a.tokens, a.nextTok, events, a.calls)
    ELSE LET r == createResource(args)
             c == Ask("insert", a.cred, NoId, r, o.u1)
             f == c.status
         IN IF f # 0
            THEN Run(RestFail(UpErr(f)), a.tokens, a.nextTok, events, a.calls \o <<c>>)
            ELSE Run(RestOk("true", <<"event">>), a.tokens, a.nextTok,
                     events @@ (NewId :> r), a.calls \o <<c>>)

\* the catch of PUT and DELETE /calendar/events/:id
RestFailById(e) ==
    IF e.code = 404
    THEN Resp(404, "none", Body("absent", <<MsgNotFoundEn>>, <<>>), NoBody)
    ELSE RestFail(e)

\* PUT /calendar/events/:id
PutEventRoute(id, args, o) ==
    LET a == getAuthenticatedClient(o) IN
    IF ~a.ok
    THEN Run(RestFailById(a.error), a.tokens, a.nextTok, events, a.calls)
    ELSE LET g  == Ask("get", a.cred, id, NoResource, o.u1)
             f1 == g.status
         IN IF f1 # 0
            THEN Run(RestFailById(UpErr(f1)), a.tokens, a.nextTok, events,
                     a.calls \o <<g>>)
            ELSE LET r  == updatedEvent(args, events[id])
                     w  == Ask("update", a.cred, id, r, o.u2)
                     f2 == w.status
                 IN IF f2 # 0
                    THEN Run(RestFailById(UpErr(f2)), a.tokens, a.nextTok, events,
                             a.calls \o <<g, w>>)
                    ELSE Run(RestOk("true", <<"event">>), a.tokens, a.nextTok,
                             [events EXCEPT ![id] = r], a.calls \o <<g, w>>)

\* DELETE /calendar/events/:id
DeleteEventRoute(id, o) ==
    LET a == getAuthenticatedClient(o) IN
    IF ~a.ok
    THEN Run(RestFailById(a.error), a.tokens, a.nextTok, events, a.calls)
    ELSE LET g  == Ask("get", a.cred, id, NoResource, o.u1)
             f1 == g.status
             d  == Ask("delete", a.cred, id, NoResource, o.u2)
             f2 == d.status
         IN IF f1 # 0
            THEN Run(RestFailById(UpErr(f1)), a.tokens, a.nextTok, events,
                     a.calls \o <<g>>)
            ELSE IF f2 # 0
            THEN Run(RestFailById(UpErr(f2)), a.tokens, a.nextTok, events,
                     a.calls \o <<g, d>>)
            ELSE Run(RestOk("true", <<"deleted_event">>), a.tokens, a.nextTok,
                     Without(id), a.calls \o <<g, d>>)

\* The route a tool name stands for; an eventId missing from the parameters
\* reaches the URL as the text "undefined".
PathId(args) == IF args.eventId = Absent THEN "undefined" ELSE args.eventId

Route(name, args, o) ==
    CASE name = "get_auth_url"    -> AuthUrlRoute
      [] name = "get_auth_status" -> AuthStatusRoute
      [] name = "list_events"     -> GetEventsRoute(args, o)
      [] name = "create_event"    -> PostEventRoute(args, o)
      [] name = "delete_event"    -> DeleteEventRoute(PathId(args), o)
      [] name = "update_event"    -> PutEventRoute(PathId(args), args, o)

\* POST /mcp/call: the body of the inner route's response, whatever its
\* status, is returned as the result of a success.
McpCallRoute(name, args, o) ==
    IF name = Absent
    THEN Run(Resp(400, "none", Body("absent", <<MsgMissingTool>>, <<>>), NoBody),
             tokens, nextTok, events, <<>>)
    ELSE IF name \notin Catalog("rest")
    THEN Run(Resp(400, "none", Body("absent", <<MsgUnknownEn, name>>, <<>>), NoBody),
             tokens, nextTok, events, <<>>)
    ELSE LET r == Route(name, args, o) IN
         Run(Resp(200, "none", Body("true", <<>>, <<>>), r.out.body),
             r.tokens, r.nextTok, r.events, r.calls)

\* ------------------------------------------------- part_001 /tools/call server
DefaultZone == "America/Sao_Paulo"
OrElse(x, dflt) == IF Truthy(x) THEN x ELSE dflt

\* the credential of the shared oauth2Client after setCredentials(serverTokens)
SharedCred == IF serverTokens = <<>> THEN NoCred ELSE serverTokens[1].access_token

\* args.start?.dateTime
ObjDateTime(t) == IF t.given THEN t.dateTime ELSE Absent
ZonedTime(t)   == Time(t.dateTime, OrElse(t.timeZone, DefaultZone))

TxtFound        == "Found events"
TxtEventCreated == "Event created successfully"
TxtEventUpdated == "Event updated successfully"
TxtEventDeleted == "Event deleted successfully"

\* The tool functions return a result text or throw; none touches the
\* token variables.
ToolRun(out, ev, cl) == Run(out, tokens, nextTok, ev, cl)

\* Math.min(Math.max(args.maxResults || 10, 1), 50)
LeastMax    == 1
GreatestMax == 50
Clamped(m) ==
    LET n == MaxOrDefault(m) IN
    IF n < LeastMax THEN LeastMax ELSE IF n > GreatestMax THEN GreatestMax ELSE n

\* one element of `events`: summary falls back to 'No title'
Mapped(it) ==
    Entry(it.id, OrElse(it.event.summary, "No title"),
          DateTimeOf(it.event.start), DateTimeOf(it.event.end))

listCalendarEvents(args, o) ==
    LET max == Clamped(args.maxResults)
        c == AskList(SharedCred, max, o.u1)
        f == c.status
        found == OrEmpty(Listed(max, o.bare))
    IN IF f # 0 THEN ToolRun(Throw(UpErr(f)), events, <<c>>)
       ELSE ToolRun(ReturnWith(<<TxtFound>>,
                               Data(NoUrl, [i \in 1..Len(found) |-> Mapped(found[i])], {})),
                    events, <<c>>)

createCalendarEvent(args, o) ==
    IF ~Truthy(args.summary) \/ ~Truthy(ObjDateTime(args.start))
                             \/ ~Truthy(ObjDateTime(args.end))
    THEN ToolRun(Throw(Err(NoCode, <<MsgMissingCreate>>)), events, <<>>)
    ELSE LET r == Event(args.summary, OrElse(args.description, ""),
                        OrElse(args.location, ""),
                        ZonedTime(args.start), ZonedTime(args.end), args.attendees)
             c == Ask("insert", SharedCred, NoId, r, o.u1)
             f == c.status
         IN IF f # 0 THEN ToolRun(Throw(UpErr(f)), events, <<c>>)
            ELSE ToolRun(Return(<<TxtEventCreated>>), events @@ (NewId :> r), <<c>>)

\* updateData: only the provided fields; the fetched event is not merged in
updateData(args) ==
    Event(args.summary, args.description, args.location,
          IF args.start.given THEN ZonedTime(args.start) ELSE NoTime,
          IF args.end.given THEN ZonedTime(args.end) ELSE NoTime,
          <<>>)

\* catch (error) { if (error.code === 404) throw new Error(`Event not found: ...`) }
NotFoundOr(e, id) == IF e.code = 404 THEN Err(NoCode, <<MsgNotFoundEn, ": ", id>>) ELSE e

updateCalendarEvent(args, o) ==
    IF ~Truthy(args.eventId)
    THEN ToolRun(Throw(Err(NoCode, <<MsgMissingId>>)), events, <<>>)
    ELSE LET id == args.eventId
             g  == Ask("get", SharedCred, id, NoResource, o.u1)
             f1 == g.status
             r  == updateData(args)
             w  == Ask("update", SharedCred, id, r, o.u2)
             f2 == w.status
         IN IF f1 # 0
            THEN ToolRun(Throw(NotFoundOr(UpErr(f1), id)), events, <<g>>)
            ELSE IF f2 # 0
            THEN ToolRun(Throw(NotFoundOr(UpErr(f2), id)), events, <<g, w>>)
            ELSE ToolRun(Return(<<TxtEventUpdated>>), [events EXCEPT ![id] = r], <<g, w>>)

deleteCalendarEvent(args, o) ==
    IF ~Truthy(args.eventId)
    THEN ToolRun(Throw(Err(NoCode, <<MsgMissingId>>)), events, <<>>)
    ELSE LET id == args.eventId
             g  == Ask("get", SharedCred, id, NoResource, o.u1)
             f1 == g.status
             d  == Ask("delete", SharedCred, id, NoResource, o.u2)
             f2 == d.status
         IN IF f1 # 0
            THEN ToolRun(Throw(NotFoundOr(UpErr(f1), id)), events, <<g>>)
            ELSE IF f2 # 0
            THEN ToolRun(Throw(NotFoundOr(UpErr(f2), id)), events, <<g, d>>)
            ELSE ToolRun(Return(<<TxtEventDeleted>>), Without(id), <<g, d>>)

PfxToolFailed == "Tool execution failed: "

\* POST /tools/call: the name is checked first, the authentication flag
\* second, the tool name in the switch last.
ToolsCallRoute(name, args, o) ==
    IF name = Absent
    THEN ToolRun(Resp(400, "none", Body("absent", <<MsgMissingName>>, <<>>), NoBody),
                 events, <<>>)
    ELSE IF ~isAuthenticated
    THEN ToolRun(Resp(401, "none", Body("absent", <<MsgServerNotAuth>>, <<>>), NoBody),
                 events, <<>>)
    ELSE IF name \notin Catalog("tools")
    THEN ToolRun(Resp(400, "none", Body("absent", <<MsgUnknownEn, name>>, <<>>), NoBody),
                 events, <<>>)
    ELSE LET r == CASE name = "list_calendar_events"   -> listCalendarEvents(args, o)
                    [] name = "create_calendar_event" -> createCalendarEvent(args, o)
                    [] name = "update_calendar_event" -> updateCalendarEvent(args, o)
                    [] name = "delete_calendar_event" -> deleteCalendarEvent(args, o)
         IN IF r.out.ok
            THEN ToolRun(Resp(200, "none",
                              BodyWith("true", <<>>, r.out.text, r.out.data), NoBody),
                         r.events, r.calls)
            ELSE ToolRun(Resp(500, "none",
                              Body("absent", <<PfxToolFailed>> \o r.out.error.message, <<>>),
                              NoBody),
                         r.events, r.calls)

\* POST /tools/list: refused until the server is authenticated
PostToolsList ==
    IF ~isAuthenticated
    THEN ToolRun(Resp(401, "none", Body("absent", <<MsgServerNotAuth>>, <<>>), NoBody),
                 events, <<>>)
    ELSE ToolRun(Resp(200, "none",
                      BodyWith("absent", <<>>, <<>>, Data(NoUrl, <<>>, Catalog("tools"))),
                      NoBody),
                 events, <<>>)

\* part_001 GET /auth/url: the shared oauth2Client, built from the environment
GetAuthUrlTools ==
    ToolRun(Resp(200, "none",
                 BodyWith("absent", <<>>,
                          <<IF isAuthenticated THEN "already_authenticated"
                                               ELSE "not_authenticated">>,
                          Data(Url(EnvClientId, EnvRedirect, "offline",
                                   {ScopeCalendar, ScopeEvents}, "consent"), <<>>, {})),
                 NoBody),
            events, <<>>)

\* part_001 GET /auth/status
GetAuthStatusTools ==
    ToolRun(Resp(200, "none",
                 Body("absent", <<>>,
                      <<IF isAuthenticated THEN "server_ready" ELSE "server_not_ready">>),
                 NoBody),
            events, <<>>)

\* ----------------------------------------------------- OAuth code exchange
\* What /auth/callback is called with: an error parameter, no code, or a code.
Queries == {"error", "nocode", "code"}

MsgNoCode   == "Codigo de autorizacao nao recebido"
MsgNoCodeEn == "Authorization code not received"
MsgAuthErr  == "Authentication error"
MsgExchange == "<token endpoint error message>"
TxtAuthDone == "Autenticacao realizada com sucesso!"

\* oAuth2Client.getToken(code): granted by the upstream or refused; the
\* token carries an expiry or none.
ExchangeOracles ==
    { [ok |-> g[1], life |-> g[2], u1 |-> u] : g \in Grants, u \in {0, 500} }
Granted(x)  == x.ok /\ nextTok < MaxTokens
Issued(x)   == Cred(nextTok + 1, Expiry(x.life))
TokenCall(x, redirect) ==
    [Call("token", NoCred, NoId, NoResource, IF Granted(x) THEN 0 ELSE 400)
        EXCEPT !.redirect_uri = redirect]

Html(status, error, text) == Resp(status, "none", Body("absent", error, text), NoBody)

\* handleAuthCallback dropping the stored credential when the exchange is refused
handleAuthCallback_ClearOnRefusal(q, x) ==
    IF q = "error"
    THEN Run(Html(400, <<MsgAuthErr>>, <<>>), tokens, nextTok, events, <<>>)
    ELSE IF q = "nocode"
    THEN Run(Html(500, <<MsgNoCode>>, <<>>), tokens, nextTok, events, <<>>)
    ELSE IF getCredentials # NoErr
    THEN Run(Html(500, getCredentials.message, <<>>), tokens, nextTok, events, <<>>)
    ELSE IF ~Granted(x)
    THEN Run(Html(500, <<MsgExchange>>, <<>>), NoTokens, nextTok, events, <<TokenCall(x, CallbackRedirect)>>)
    ELSE Run(Html(200, <<>>, <<TxtAuthDone>>), Store(Issued(x)), nextTok + 1, events,
             <<TokenCall(x, CallbackRedirect)>>)

\* index.js handleAuthCallback
handleAuthCallback(q, x) ==
    IF q = "error"
    THEN Run(Html(400, <<MsgAuthErr>>, <<>>), tokens, nextTok, events, <<>>)
    ELSE IF q = "nocode"
    THEN Run(Html(500, <<MsgNoCode>>, <<>>), tokens, nextTok, events, <<>>)
    ELSE IF getCredentials # NoErr
    THEN Run(Html(500, getCredentials.message, <<>>), tokens, nextTok, events, <<>>)
    ELSE IF ~Granted(x)
    THEN Run(Html(500, <<MsgExchange>>, <<>>), tokens, nextTok, events, <<TokenCall(x, CallbackRedirect)>>)
    ELSE Run(Html(200, <<>>, <<TxtAuthDone>>), Store(Issued(x)), nextTok + 1, events,
             <<TokenCall(x, CallbackRedirect)>>)

\* part_002 GET /auth/callback
AuthCallbackRoute(q, x) ==
    IF q = "error"
    THEN Run(Html(400, <<MsgAuthErr>>, <<>>), tokens, nextTok, events, <<>>)
    ELSE IF q = "nocode"
    THEN Run(Html(400, <<MsgNoCodeEn>>, <<>>), tokens, nextTok, events, <<>>)
    ELSE IF getCredentials # NoErr
    THEN Run(Html(500, getCredentials.message, <<>>), tokens, nextTok, events, <<>>)
    ELSE IF ~Granted(x)
    THEN Run(Html(500, <<MsgExchange>>, <<>>), tokens, nextTok, events, <<TokenCall(x, CallbackRouteRedirect)>>)
    ELSE Run(Html(200, <<>>, <<TxtAuthDone>>), Store(Issued(x)), nextTok + 1, events,
             <<TokenCall(x, CallbackRouteRedirect)>>)

\* part_001 GET /auth/callback reads only `code`; the tokens and the flag are
\* set before calendarList.list() tests the access. The fields of the result:
\* the response, serverTokens, isAuthenticated, the token counter, the calls.
ToolsAuth(out, st, flag, n, cl) ==
    [out |-> out, serverTokens |-> st, isAuthenticated |-> flag, nextTok |-> n,
     calls |-> cl]

\* AuthCallbackTools taking the flag back when the access test fails
AuthCallbackTools_FlagOffOnTestFailure(q, x) ==
    IF q = "nocode"
    THEN ToolsAuth(Html(400, <<MsgNoCodeEn>>, <<>>), serverTokens, isAuthenticated,
                   nextTok, <<>>)
    ELSE IF ~Granted(x)
    THEN ToolsAuth(Html(500, <<MsgExchange>>, <<>>), serverTokens, isAuthenticated,
                   nextTok, <<TokenCall(x, EnvRedirect)>>)
    ELSE LET t == Call("calendarList", Issued(x).access_token, NoId, NoResource, x.u1) IN
         IF x.u1 # 0
         THEN ToolsAuth(Html(500, <<MsgUpstream>>, <<>>), <<>>, FALSE,
                        nextTok + 1, <<TokenCall(x, EnvRedirect), t>>)
         ELSE ToolsAuth(Html(200, <<>>, <<TxtAuthDone>>), <<Issued(x)>>, TRUE,
                        nextTok + 1, <<TokenCall(x, EnvRedirect), t>>)

AuthCallbackTools(q, x) ==
    IF q = "nocode"
    THEN ToolsAuth(Html(400, <<MsgNoCodeEn>>, <<>>), serverTokens, isAuthenticated,
                   nextTok, <<>>)
    ELSE IF ~Granted(x)
    THEN ToolsAuth(Html(500, <<MsgExchange>>, <<>>), serverTokens, isAuthenticated,
                   nextTok, <<TokenCall(x, EnvRedirect)>>)
    ELSE LET t == Call("calendarList", Issued(x).access_token, NoId, NoResource, x.u1) IN
         IF x.u1 # 0
         THEN ToolsAuth(Html(500, <<MsgUpstream>>, <<>>), <<Issued(x)>>, TRUE,
                        nextTok + 1, <<TokenCall(x, EnvRedirect), t>>)
         ELSE ToolsAuth(Html(200, <<>>, <<TxtAuthDone>>), <<Issued(x)>>, TRUE,
                        nextTok + 1, <<TokenCall(x, EnvRedirect), t>>)

\* The answers that can make a difference to a request: one calendar call
\* for list and create, two for update and delete, none for the rest; what
\* a refresh is answered only when the request comes to refresh.
CallsOf(name) ==
    CASE name \in {"list_events", "create_event",
                   "list_calendar_events", "create_calendar_event"} -> 1
      [] name \in {"update_event", "delete_event",
                   "update_calendar_event", "delete_calendar_event"} -> 2
      [] OTHER -> 0
\* Upstream failures are injected into the requests that carry the plain
\* arguments of their tool: no maxResults on a list, a summary on a create or
\* an update.
Plain(args) == args.maxResults = <<>> /\ (args.summary = Absent \/ Truthy(args.summary))
Answers(name, args) ==
    CASE CallsOf(name) = 0 \/ ~Plain(args) -> {<<0, 0>>}
      [] CallsOf(name) = 1 -> UpCodes \X {0}
      [] CallsOf(name) = 2 -> ({0} \X UpCodes) \cup (UpCodes \X {0})
Refreshing(name) ==
    /\ variant \in {"mcp", "rest"}
    /\ CallsOf(name) > 0
    /\ getCredentials = NoErr
    /\ Stored
    /\ NeedsRefresh(tokens["default"])
\* a list over an empty calendar may be answered without `items`
Bare(name, args) ==
    IF name \in {"list_events", "list_calendar_events"} /\ DOMAIN events = {}
       /\ Plain(args)
    THEN BOOLEAN ELSE {FALSE}
Oracles(name, args) ==
    { [Oracle(g[1], g[2], u[1], u[2]) EXCEPT !.bare = b] :
        g \in IF Refreshing(name) THEN Grants ELSE {<<FALSE, 0>>},
        u \in Answers(name, args),
        b \in Bare(name, args) }

\* -------------------------------------------------------- request inputs
ReqIds == EventIds \cup {NoId}

\* create_event / POST /calendar/events bodies (string dates): the required
\* fields alone, then without a summary, without a start, without an end
StrCreateArgs ==
    { Args(NoId, "S1", Absent, Absent, StrTime("t1"), StrTime("t2"), <<>>),
      Args(NoId, Absent, Absent, Absent, StrTime("t1"), StrTime("t2"), <<>>),
      Args(NoId, "S1", Absent, Absent, NoTimeArg, StrTime("t2"), <<>>),
      Args(NoId, "S1", Absent, Absent, StrTime("t1"), NoTimeArg, <<>>) }

\* update_event / PUT /calendar/events/:id bodies (string dates)
StrUpdateArgs ==
    { Args(id, a[1], a[2], a[3], a[4], a[5], <<>>) :
        id \in EventIds,
        a \in { <<"S2", Absent, Absent, StrTime(""), NoTimeArg>>,
                <<"", "", "", StrTime("t3"), StrTime("")>> } }

\* create_calendar_event arguments (object dates)
ObjCreateArgs ==
    { Args(NoId, "S1", Absent, Absent, TimeArg(TRUE, "t1", Absent),
           TimeArg(TRUE, "t2", "UTC"), <<"a@x">>),
      Args(NoId, Absent, Absent, Absent, TimeArg(TRUE, "t1", Absent),
           TimeArg(TRUE, "t2", Absent), <<>>),
      Args(NoId, "S1", Absent, Absent, NoTimeArg, TimeArg(TRUE, "t2", Absent), <<>>),
      Args(NoId, "S1", Absent, Absent, TimeArg(TRUE, "t1", Absent),
           TimeArg(TRUE, Absent, Absent), <<>>) }

\* update_calendar_event arguments (object dates)
ObjUpdateArgs ==
    { Args(id, a[1], Absent, a[2], a[3], a[4], <<>>) :
        id \in ReqIds,
        a \in { <<"S2", Absent, NoTimeArg, NoTimeArg>>,
                <<Absent, "L2", TimeArg(TRUE, "t3", Absent),
                  TimeArg(TRUE, "t4", "UTC")>> } }

\* list arguments: maxResults left out, below one, inside and above the range
MaxResultsArgs == {<<>>, <<-1>>, <<0>>, <<5>>, <<51>>}
ListArgs == { [NoArgs EXCEPT !.maxResults = m] : m \in MaxResultsArgs }

DeleteArgs == { Args(id, Absent, Absent, Absent, NoTimeArg, NoTimeArg, <<>>) : id \in EventIds }

ArgsFor(name) ==
    CASE name = "create_event"          -> StrCreateArgs
      [] name = "update_event"          -> StrUpdateArgs
      [] name = "delete_event"          -> DeleteArgs
      [] name = "create_calendar_event" -> ObjCreateArgs
      [] name = "update_calendar_event" -> ObjUpdateArgs
      [] name = "delete_calendar_event" -> DeleteArgs
      [] name \in {"list_events", "list_calendar_events"} -> ListArgs
      [] OTHER                          -> {NoArgs}

Request(transport, name, args) == [transport |-> transport, name |-> name, args |-> args]
NoRequest == Request("none", Absent, NoArgs)

\* An event the calendar may hold before the process starts.
SeedEvent == Event("S1", "D1", "L1", Time("t1", "UTC"), Time("t2", "UTC"), <<"a@x">>)
EnvAccess == 9

\* ------------------------------------------------------------------ actions
Init ==
    /\ variant \in Variants
    /\ \E c \in IF variant = "tools" THEN {<<"valid", "unset">>} ELSE ConfigStates :
          credEnv = c[1] /\ credFile = c[2]
    /\ env = NoEnv
    /\ race = NoRace
    /\ envToken \in IF variant = "legacy"
                    THEN {<<>>, <<Cred(EnvAccess, NoExpiry)>>} ELSE {<<>>}
    /\ tokens = NoTokens
    /\ serverTokens = <<>>
    /\ isAuthenticated = FALSE
    /\ now = 1
    /\ nextTok = 0
    /\ events \in {[i \in {} |-> SeedEvent], [i \in {"e1"} |-> SeedEvent]}
    /\ req = NoRequest
    /\ calls = <<>>
    /\ resp = NoResp
    /\ act = "Init"

\* Time passes.
Tick ==
    /\ now < MaxTime
    /\ now' = now + 1
    /\ req' = NoRequest
    /\ calls' = <<>>
    /\ resp' = NoResp
    /\ act' = "Tick"
    /\ UNCHANGED <<variant, credEnv, credFile, env, envToken, race, tokens, serverTokens,
                   isAuthenticated, nextTok, events>>

\* The process is restarted: the constructor runs again; the environment, the
\* credentials file, the clock and the upstream calendar stay as they are.
Restart ==
    /\ act # "Init"
    /\ tokens' = NoTokens
    /\ serverTokens' = <<>>
    /\ isAuthenticated' = FALSE
    /\ nextTok' = 0
    /\ req' = NoRequest
    /\ calls' = <<>>
    /\ resp' = NoResp
    /\ act' = "Restart"
    /\ UNCHANGED <<variant, credEnv, credFile, env, envToken, race, now, events>>

\* The frame of a request against the servers that keep this.tokens.
Served(transport, name, args, r, response) ==
    /\ tokens' = r.tokens
    /\ nextTok' = r.nextTok
    /\ events' = r.events
    /\ calls' = r.calls
    /\ req' = Request(transport, name, args)
    /\ resp' = response
    /\ act' = transport
    /\ UNCHANGED <<variant, credEnv, credFile, env, envToken, race, serverTokens, isAuthenticated, now>>

\* A tools/call request on stdio (index.js, part_000)
StdioCall ==
    /\ variant \in {"mcp", "legacy"}
    /\ \E name \in McpNames \cup UnknownNames :
       \E args \in ArgsFor(name) : \E o \in Oracles(name, args) :
          LET r == Dispatch(name, args, o) IN
          Served("stdio", name, args, r, StdioResponse(name, r.out))

\* POST /api/tools/call (index.js)
ApiToolsCall ==
    /\ variant = "mcp"
    /\ \E name \in McpNames \cup UnknownNames :
       \E args \in ArgsFor(name) : \E o \in Oracles(name, args) :
          LET r == Dispatch(name, args, o) IN
          Served("api", name, args, r, ApiResponse(r.out))

\* A request to one of the REST routes (part_002)
RestCall ==
    /\ variant = "rest"
    /\ \E name \in McpNames :
       \E args \in ArgsFor(name) : \E o \in Oracles(name, args) :
          LET r == Route(name, args, o) IN
          Served("route", name, args, r, r.out)

\* POST /mcp/call (part_002)
McpCall ==
    /\ variant = "rest"
    /\ \E name \in McpNames \cup UnknownNames \cup {Absent} :
       \E args \in ArgsFor(name) : \E o \in Oracles(name, args) :
          LET r == McpCallRoute(name, args, o) IN
          Served("mcpcall", name, args, r, r.out)

\* POST /tools/call (part_001)
ToolsCall ==
    /\ variant = "tools"
    /\ \E name \in ToolsNames \cup UnknownNames \cup {Absent} :
       \E args \in ArgsFor(name) : \E o \in Oracles(name, args) :
          LET r == ToolsCallRoute(name, args, o) IN
          Served("toolscall", name, args, r, r.out)

\* GET /auth/callback (index.js, part_002)
AuthCallback ==
    /\ variant \in {"mcp", "rest"}
    /\ \E q \in Queries : \E x \in ExchangeOracles :
          LET r == IF variant = "mcp" THEN handleAuthCallback(q, x)
                                      ELSE AuthCallbackRoute(q, x)
          IN Served("callback", q, NoArgs, r, r.out)

\* GET /auth/callback (part_001)
ToolsAuthCallback ==
    /\ variant = "tools"
    /\ \E q \in Queries \ {"error"} : \E x \in ExchangeOracles :
          LET r == AuthCallbackTools(q, x) IN
          /\ serverTokens' = r.serverTokens
          /\ isAuthenticated' = r.isAuthenticated
          /\ nextTok' = r.nextTok
          /\ calls' = r.calls
          /\ req' = Request("callback", q, NoArgs)
          /\ resp' = r.out
          /\ act' = "callback"
          /\ UNCHANGED <<variant, credEnv, credFile, env, envToken, race, tokens, events, now>>

\* tools/list on stdio (index.js, part_000)
StdioListTools ==
    /\ variant \in {"mcp", "legacy"}
    /\ Served("toolslist", "tools/list", NoArgs, ListToolsHandler, ListToolsHandler.out)

\* GET /mcp/tools (part_002)
McpTools ==
    /\ variant = "rest"
    /\ Served("toolslist", "tools/list", NoArgs, GetMcpTools, GetMcpTools.out)

\* POST /tools/list (part_001)
ToolsList ==
    /\ variant = "tools"
    /\ Served("toolslist", "tools/list", NoArgs, PostToolsList, PostToolsList.out)

\* GET /auth (index.js)
AuthPage ==
    /\ variant = "mcp"
    /\ Served("page", "auth", NoArgs, getAuthPage, getAuthPage.out)

\* GET /status (index.js)
StatusRequest ==
    /\ variant = "mcp"
    /\ Served("authroute", "get_auth_status", NoArgs, GetStatus, GetStatus.out)

\* GET /auth/url and GET /auth/status (part_001)
ToolsAuthRoute ==
    /\ variant = "tools"
    /\ \E name \in {"get_auth_url", "get_auth_status"} :
          LET r == IF name = "get_auth_url" THEN GetAuthUrlTools ELSE GetAuthStatusTools
          IN Served("authroute", name, NoArgs, r, r.out)

Next ==
    \/ Tick
    \/ Restart
    \/ StdioListTools
    \/ McpTools
    \/ ToolsList
    \/ AuthPage
    \/ StatusRequest
    \/ ToolsAuthRoute
    \/ StdioCall
    \/ ApiToolsCall
    \/ RestCall
    \/ McpCall
    \/ ToolsCall
    \/ AuthCallback
    \/ ToolsAuthCallback

Spec == Init /\ [][Next]_vars

\* ------------------------------------------------- the loader on its own
\* The programs that load a credentials document, started over every pair of
\* sources, with getCredentials called once.
LoaderInit ==
    /\ variant \in {"mcp", "rest", "legacy"}
    /\ credEnv \in Sources
    /\ credFile \in Sources
    /\ env = NoEnv
    /\ race = NoRace
    /\ envToken = <<>>
    /\ tokens = NoTokens
    /\ serverTokens = <<>>
    /\ isAuthenticated = FALSE
    /\ now = 1
    /\ nextTok = 0
    /\ events = [i \in {} |-> SeedEvent]
    /\ req = NoRequest
    /\ calls = <<>>
    /\ resp = NoResp
    /\ act = "Init"

\* await this.getCredentials(): the document returned (text: where it came
\* from and what it holds) or the error thrown
LoadCredentials ==
    /\ req' = Request("load", "getCredentials", NoArgs)
    /\ resp' = Resp(0, "none",
                    IF readCredentials.ok
                    THEN Body("absent", <<>>, <<readCredentials.from, readCredentials.content>>)
                    ELSE Body("absent", <<MsgConfig>>, <<readCredentials.from>>),
                    NoBody)
    /\ calls' = <<>>
    /\ act' = "load"
    /\ UNCHANGED <<variant, credEnv, credFile, env, envToken, race, tokens, serverTokens,
                   isAuthenticated, now, nextTok, events>>

LoaderNext == LoadCredentials

LoaderSpec == LoaderInit /\ [][LoaderNext]_vars

\* ------------------------------------------- the consent flow on its own
\* The three servers with an /auth/callback, configured, started under every
\* environment, taking only the requests of the consent flow.
AuthFlowInit ==
    /\ variant \in {"mcp", "rest", "tools"}
    /\ credEnv = "valid"
    /\ credFile = "unset"
    /\ env \in Envs
    /\ race = NoRace
    /\ envToken = <<>>
    /\ tokens = NoTokens
    /\ serverTokens = <<>>
    /\ isAuthenticated = FALSE
    /\ now = 1
    /\ nextTok = 0
    /\ events = [i \in {} |-> SeedEvent]
    /\ req = NoRequest
    /\ calls = <<>>
    /\ resp = NoResp
    /\ act = "Init"

\* GET /auth/url (part_002)
AuthUrlRequest ==
    /\ variant = "rest"
    /\ Served("route", "get_auth_url", NoArgs, AuthUrlRoute, AuthUrlRoute.out)

AuthFlowNext ==
    \/ AuthPage
    \/ AuthUrlRequest
    \/ ToolsAuthRoute
    \/ AuthCallback
    \/ ToolsAuthCallback

AuthFlowSpec == AuthFlowInit /\ [][AuthFlowNext]_vars

\* ------------------------------------------------- interleaved requests
\* index.js / part_002 getAuthenticatedClient and part_001 /tools/call, cut
\* at their awaits: between two awaits a handler runs alone, at an await any
\* other request or callback may run.
Holding(t, st) == {t[k] : k \in DOMAIN t} \cup {st[i] : i \in 1..Len(st)}

RaceInit ==
    /\ variant \in {"mcp", "rest", "tools"}
    /\ credEnv = "valid"
    /\ credFile = "unset"
    /\ env = NoEnv
    /\ race = NoRace
    /\ envToken = <<>>
    /\ tokens = NoTokens
    /\ serverTokens = <<>>
    /\ isAuthenticated = FALSE
    /\ now = 1
    /\ nextTok = 0
    /\ events = [i \in {} |-> SeedEvent]
    /\ req = NoRequest
    /\ calls = <<>>
    /\ resp = NoResp
    /\ act = "Init"

\* GET /auth/callback with a code: getToken is awaited, the store is written
\* when it has answered.
RaceExchange ==
    \E x \in ExchangeOracles :
       LET r == CASE variant = "mcp"   -> handleAuthCallback("code", x)
                  [] variant = "rest"  -> AuthCallbackRoute("code", x)
                  [] variant = "tools" -> AuthCallbackTools("code", x)
           t == IF variant = "tools" THEN tokens ELSE r.tokens
           st == IF variant = "tools" THEN r.serverTokens ELSE serverTokens
       IN /\ tokens' = t
          /\ serverTokens' = st
          /\ isAuthenticated' = IF variant = "tools" THEN r.isAuthenticated
                                                     ELSE isAuthenticated
          /\ nextTok' = r.nextTok
          /\ race' = [race EXCEPT
                        !.issued = @ \cup (IF Granted(x) THEN {Issued(x)} ELSE {}),
                        !.stored = @ \cup Holding(t, st)]
          /\ calls' = r.calls
          /\ req' = Request("callback", "code", NoArgs)
          /\ resp' = r.out
          /\ act' = "callback"
          /\ UNCHANGED <<variant, credEnv, credFile, env, envToken, now, events>>

\* A request enters: getAuthenticatedClient up to its first await (index.js
\* 254-261), or the flag check and setCredentials of /tools/call.
BeginRequest(r) ==
    /\ race.pc[r] = "idle"
    /\ IF variant = "tools"
       THEN race' = [race EXCEPT !.pc[r] = IF isAuthenticated THEN "calling" ELSE "idle",
                                 !.held[r] = IF isAuthenticated THEN serverTokens[1] ELSE @]
       ELSE IF ~Stored
       THEN race' = race
       ELSE race' = [race EXCEPT
                        !.pc[r] = IF NeedsRefresh(tokens["default"]) THEN "refreshing"
                                                                      ELSE "calling",
                        !.held[r] = tokens["default"]]
    /\ req' = Request("begin", "list_events", NoArgs)
    /\ calls' = <<>>
    /\ resp' = IF race'.pc[r] = "idle"
               THEN Resp(0, "none", Body("absent", <<IF variant = "tools"
                                                     THEN MsgServerNotAuth ELSE MsgNotAuth>>,
                                         <<>>), NoBody)
               ELSE NoResp
    /\ act' = "begin"
    /\ UNCHANGED <<variant, credEnv, credFile, env, envToken, tokens, serverTokens,
                   isAuthenticated, now, nextTok, events>>

\* FinishRefresh storing the new access token with the expiry of the old credential
FinishRefresh_MergeOld(r) ==
    /\ race.pc[r] = "refreshing"
    /\ \E g \in Grants :
          LET granted == g[1] /\ nextTok < MaxTokens
              new     == Cred(nextTok + 1, Expiry(g[2]))
              mixed   == Cred(nextTok + 1, race.held[r].expiry_date)
          IN /\ tokens' = IF granted THEN Store(mixed) ELSE NoTokens
             /\ nextTok' = IF granted THEN nextTok + 1 ELSE nextTok
             /\ race' = IF granted
                        THEN [race EXCEPT !.pc[r] = "calling", !.held[r] = mixed,
                                          !.issued = @ \cup {new},
                                          !.stored = @ \cup {mixed}]
                        ELSE [race EXCEPT !.pc[r] = "idle"]
             /\ calls' = <<Call("refresh", race.held[r].access_token, NoId, NoResource,
                                IF granted THEN 0 ELSE 400)>>
             /\ resp' = IF granted THEN NoResp
                        ELSE Resp(0, "none", Body("absent", <<MsgTokenExpired>>, <<>>), NoBody)
    /\ req' = Request("refresh", "list_events", NoArgs)
    /\ act' = "refresh"
    /\ UNCHANGED <<variant, credEnv, credFile, env, envToken, serverTokens,
                   isAuthenticated, now, events>>

\* refreshAccessToken has answered (index.js 261-267): the credentials it gave
\* are stored and given to the client, or 'default' is deleted and the
\* request ends with 'Token expirado'.
FinishRefresh(r) ==
    /\ race.pc[r] = "refreshing"
    /\ \E g \in Grants :
          LET granted == g[1] /\ nextTok < MaxTokens
              new     == Cred(nextTok + 1, Expiry(g[2]))
          IN /\ tokens' = IF granted THEN Store(new) ELSE NoTokens
             /\ nextTok' = IF granted THEN nextTok + 1 ELSE nextTok
             /\ race' = IF granted
                        THEN [race EXCEPT !.pc[r] = "calling", !.held[r] = new,
                                          !.issued = @ \cup {new},
                                          !.stored = @ \cup {new}]
                        ELSE [race EXCEPT !.pc[r] = "idle"]
             /\ calls' = <<Call("refresh", race.held[r].access_token, NoId, NoResource,
                                IF granted THEN 0 ELSE 400)>>
             /\ resp' = IF granted THEN NoResp
                        ELSE Resp(0, "none", Body("absent", <<MsgTokenExpired>>, <<>>), NoBody)
    /\ req' = Request("refresh", "list_events", NoArgs)
    /\ act' = "refresh"
    /\ UNCHANGED <<variant, credEnv, credFile, env, envToken, serverTokens,
                   isAuthenticated, now, events>>

\* The calendar call of a request goes out with the credential of its
\* client: the one the request was given, or in part_001 the one the shared
\* oauth2Client carries by then.
FinishCall(r) ==
    /\ race.pc[r] = "calling"
    /\ LET c == IF variant = "tools" THEN serverTokens[1] ELSE race.held[r]
       IN calls' = <<Call("list", c.access_token, NoId, NoResource,
                          IF NeedsRefresh(c) THEN 401 ELSE 0)>>
    /\ race' = [race EXCEPT !.pc[r] = "idle"]
    /\ req' = Request("call", "list_events", NoArgs)
    /\ resp' = NoResp
    /\ act' = "call"
    /\ UNCHANGED <<variant, credEnv, credFile, env, envToken, tokens, serverTokens,
                   isAuthenticated, now, nextTok, events>>

RaceNext ==
    \/ Tick
    \/ RaceExchange
    \/ \E r \in Reqs : BeginRequest(r)
    \/ \E r \in Reqs : FinishRefresh(r)
    \/ \E r \in Reqs : FinishCall(r)

RaceSpec == RaceInit /\ [][RaceNext]_vars

\* ------------------------------------------------------------ observations
\* What the last request and its response show.
Transports     == {"stdio", "api", "route", "mcpcall", "toolscall"}
HttpTransports == Transports \ {"stdio"}

ListNames     == {"list_events", "list_calendar_events"}
CreateNames   == {"create_event", "create_calendar_event"}
UpdateNames   == {"update_event", "update_calendar_event"}
DeleteNames   == {"delete_event", "delete_calendar_event"}
CalendarNames == ListNames \cup CreateNames \cup UpdateNames \cup DeleteNames

\* the last request was a tool invocation; of a calendar tool of the catalog
Invoked         == req.transport \in Transports
CalendarInvoked == Invoked /\ req.name \in CalendarNames \cap Catalog(variant)

\* The body that carries the operation's outcome: /mcp/call hands on the body
\* of the route it forwarded to.
Outcome   == IF req.transport = "mcpcall" /\ resp.status = 200 THEN resp.inner ELSE resp.body
ErrorText == Outcome.error

\* the transport reports a failure: an McpError on stdio, a 4xx/5xx on HTTP
Failed == IF req.transport = "stdio" THEN resp.mcpCode # "none" ELSE resp.status >= 400

SaysNotAuth    == Contains(ErrorText, MsgNotAuth) \/ Contains(ErrorText, MsgServerNotAuth)
SaysExpired    == Contains(ErrorText, MsgTokenExpired)
SaysNotFound   == Contains(ErrorText, MsgNotFoundPt) \/ Contains(ErrorText, MsgNotFoundEn)
SaysUnknown    == Contains(ErrorText, MsgUnknownPt) \/ Contains(ErrorText, MsgUnknownEn)
SaysValidation ==
    \E m \in {MsgMissingCreate, MsgMissingId, MsgMissingName, MsgMissingTool} :
        Contains(ErrorText, m)

CalendarCalls == {i \in 1..Len(calls) : calls[i].api \in CalendarApis}
RefreshCalls  == {i \in 1..Len(calls) : calls[i].api = "refresh"}

\* a stored credential whose expiry has been reached
StoredExpired == Stored /\ tokens["default"].expiry_date \in 1..now
\* a stored credential whose expiry is still ahead
StoredFresh   == Stored /\ tokens["default"].expiry_date > now

RequiredMissing ==
    \/ ~Truthy(req.args.summary)
    \/ ~Truthy(req.args.start.dateTime)
    \/ ~Truthy(req.args.end.dateTime)

\* ------------------------------------------------------------------ claims
\* C1: with a loadable configuration, a calendar operation invoked before any
\* successful OAuth code exchange (no token issued yet) fails with a
\* not-authenticated error and issues no calendar call; invoked right after a
\* successful exchange it does not fail for lack of a credential.
C1_AuthBeforeCalendar ==
    [][ (act' \in Transports /\ config = "valid"
           /\ req'.name \in CalendarNames \cap Catalog(variant)) =>
          /\ (nextTok = 0 => SaysNotAuth' /\ CalendarCalls' = {})
          /\ (act = "callback" /\ resp.status = 200 => ~SaysNotAuth' /\ ~SaysExpired')
      ]_vars

\* C2: when the stored credential has expired and the refresh is refused, the
\* request ends with the store empty, a token-expired error and no calendar
\* call; and once a credential that had been issued is gone from the store,
\* a calendar request fails not-authenticated with no upstream call at all
\* (so no further refresh) and leaves the store empty.
C2_RefreshFailureClears ==
    [][ (act' \in Transports /\ req'.name \in CalendarNames) =>
          /\ (StoredExpired /\ (\E i \in RefreshCalls' : calls'[i].status # 0) =>
                ~Stored' /\ SaysExpired' /\ CalendarCalls' = {})
          /\ (variant \in {"mcp", "rest"} /\ nextTok > 0 /\ ~Stored =>
                SaysNotAuth' /\ calls' = <<>> /\ ~Stored')
      ]_vars

\* a not-authenticated failure after an issued credential was cleared
C2_Witness ==
    /\ CalendarInvoked /\ SaysNotAuth
    /\ variant \in {"mcp", "rest"} /\ nextTok > 0 /\ ~Stored

\* C3: when the stored credential has expired and the refresh succeeds, the
\* store holds a different credential afterwards and every calendar call of
\* the request carries that one; a stored credential whose expiry is ahead is
\* used as it is, with no refresh call and the store untouched.
C3_RefreshReplaces ==
    [][ (act' \in Transports /\ req'.name \in CalendarNames) =>
          /\ (StoredExpired /\ (\E i \in RefreshCalls' : calls'[i].status = 0) =>
                /\ Stored'
                /\ tokens'["default"].access_token # tokens["default"].access_token
                /\ \A i \in CalendarCalls' :
                      calls'[i].cred = tokens'["default"].access_token
                /\ (req'.name \in ListNames => CalendarCalls' # {}))
          /\ (StoredFresh =>
                /\ RefreshCalls' = {}
                /\ tokens' = tokens
                /\ \A i \in CalendarCalls' :
                      calls'[i].cred = tokens["default"].access_token
                /\ (req'.name \in ListNames => CalendarCalls' # {}))
      ]_vars

\* a calendar call made with the credential a refresh has just stored
C3_Witness ==
    /\ CalendarInvoked /\ Stored
    /\ \E i \in RefreshCalls : calls[i].status = 0
    /\ \E i \in CalendarCalls : calls[i].cred = tokens["default"].access_token

\* C4: the resource an update writes is the merge of the fetched event and
\* the arguments: a field the caller supplied has the caller's value, every
\* other field of {summary, description, start, end, location, attendees}
\* the value of the fetched event.
C4_UpdateIsMerge ==
    [][ \A i \in 1..Len(calls') :
          (act' \in Transports /\ calls'[i].api = "update") =>
            LET w   == calls'[i].resource
                a   == req'.args
                cur == events[calls'[i].id]
            IN /\ w.summary = (IF a.summary = Absent THEN cur.summary ELSE a.summary)
               /\ w.description =
                     (IF a.description = Absent THEN cur.description ELSE a.description)
               /\ w.location = (IF a.location = Absent THEN cur.location ELSE a.location)
               /\ (IF a.start.given THEN w.start.dateTime = a.start.dateTime
                                    ELSE w.start = cur.start)
               /\ (IF a.end.given THEN w.end.dateTime = a.end.dateTime
                                  ELSE w.end = cur.end)
               /\ w.attendees = (IF a.attendees = <<>> THEN cur.attendees ELSE a.attendees)
      ]_vars

\* C5: an update or a delete that the upstream answered with 404 ends, on
\* every transport, in a failure that says the event was not found.
C5_NotFoundIsFailure ==
    (/\ Invoked /\ req.name \in UpdateNames \cup DeleteNames
     /\ \E i \in CalendarCalls : calls[i].status = 404)
        => Failed /\ SaysNotFound

\* C6: a create request that got past authentication fails with a validation
\* error and issues no insert when summary, start or end is missing or empty;
\* with the three present and the upstream accepting the insert it succeeds.
C6_CreateValidates ==
    (/\ Invoked /\ req.name \in CreateNames \cap Catalog(variant)
     /\ getCredentials = NoErr /\ ~SaysNotAuth /\ ~SaysExpired)
        => IF RequiredMissing
           THEN SaysValidation /\ \A i \in CalendarCalls : calls[i].api # "insert"
           ELSE (\E i \in CalendarCalls : calls[i].api = "insert" /\ calls[i].status = 0)
                    => ~Failed /\ ErrorText = <<>>

\* C7: a tool name outside the catalog gets, in every authentication state,
\* an unknown-tool error (MethodNotFound on stdio, never an internal or an
\* authentication error) that carries the name, and no upstream call is made.
C7_UnknownTool ==
    (Invoked /\ req.name \in UnknownNames)
        => /\ Failed /\ SaysUnknown /\ Contains(ErrorText, req.name)
           /\ (req.transport = "stdio" => resp.mcpCode = "MethodNotFound")
           /\ ~SaysNotAuth /\ resp.status # 401
           /\ calls = <<>>

\* C8 as stated: an invocation that ends in a validation error or in a
\* not-authenticated error has issued no upstream call, neither a calendar
\* call nor a token refresh.
C8_NoUpstreamBeforeRefusal ==
    (Invoked /\ (SaysValidation \/ SaysNotAuth)) => calls = <<>>

\* C8 amended: an invocation that ends in a validation error or in a
\* not-authenticated error has issued no calendar call; a not-authenticated
\* error comes with no upstream call at all; the only upstream call a
\* validation error can follow is the one successful token refresh of the
\* REST create route, which authenticates before it validates.
C8_NoCalendarCallBeforeRefusal ==
    (Invoked /\ (SaysValidation \/ SaysNotAuth)) =>
        /\ CalendarCalls = {}
        /\ (SaysNotAuth => calls = <<>>)
        /\ (calls # <<>> =>
              /\ variant = "rest" /\ req.name = "create_event"
              /\ Len(calls) = 1 /\ calls[1].api = "refresh" /\ calls[1].status = 0)

\* a validation error of the REST create route after a token refresh
C8_Witness ==
    Invoked /\ SaysValidation /\ RefreshCalls # {}

\* C9: on the HTTP transports a request that fails for lack of a usable
\* credential gets 401, one whose event the upstream does not know 404, one
\* with required arguments missing 400, one the upstream failed with a
\* server error 500, and every failing response has an error field.
C9_HttpStatusByCause ==
    (Invoked /\ req.transport \in HttpTransports) =>
        /\ (SaysNotAuth \/ SaysExpired => resp.status = 401)
        /\ ((\E i \in CalendarCalls : calls[i].status = 404) => resp.status = 404)
        /\ (SaysValidation => resp.status = 400)
        /\ ((\E i \in CalendarCalls : calls[i].status = 500) => resp.status = 500)
        /\ (resp.status >= 400 => resp.body.error # <<>>)

\* C10: every invocation gets a response, and a response marked as a success
\* carries no error result: not the error body of a failed inner route, not an
\* event-not-found text, and no upstream call of its request has failed.
C10_OneOutcome ==
    Invoked =>
        /\ resp # NoResp
        /\ (resp.body.success = "true" =>
              /\ resp.inner.error = <<>>
              /\ ~Contains(resp.body.text, MsgNotFoundPt)
              /\ \A i \in 1..Len(calls) : calls[i].status = 0)


\* the response says, as an error or as a result text, that the event was not
\* found
TellsNotFound == SaysNotFound \/ Contains(Outcome.text, MsgNotFoundPt)

\* the last request was a delete that the upstream carried out
Deleted ==
    /\ Invoked /\ req.name \in DeleteNames
    /\ \E i \in CalendarCalls : calls[i].api = "delete" /\ calls[i].status = 0

\* C11: a delete of the id that the request just before it deleted, once it
\* reaches the upstream (which answers 404), is reported as not found and the
\* response is not marked as a success.
C11_SecondDeleteNotFound ==
    [][ (/\ Deleted
         /\ act' \in Transports /\ req'.name \in DeleteNames
         /\ req'.args.eventId = req.args.eventId
         /\ \E i \in CalendarCalls' : calls'[i].status = 404)
            => TellsNotFound' /\ resp'.body.success # "true"
      ]_vars

\* C12: every events.list call of a list request carries a maxResults within
\* 1..50: 10 when the caller left it out, 1 for a value below 1, 50 for a value
\* above 50, the caller's value otherwise.
C12_MaxResultsClamped ==
    (Invoked /\ req.name \in ListNames) =>
        \A i \in CalendarCalls :
            calls[i].api = "list" =>
                LET m == req.args.maxResults
                    n == calls[i].maxResults[1]
                IN /\ n \in 1..50
                   /\ n = (IF m = <<>> THEN 10
                           ELSE IF m[1] < 1 THEN 1
                           ELSE IF m[1] > 50 THEN 50 ELSE m[1])

\* the last request was a list that the upstream answered
ListAnswered ==
    /\ Invoked /\ req.name \in ListNames
    /\ \E i \in CalendarCalls : calls[i].api = "list" /\ calls[i].status = 0

\* C13: a list that the upstream answered with no event (an empty or a
\* left-out item list) ends as a success without an error, with an empty
\* event list and, on stdio and /api/tools/call, the no-events text.
C13_EmptyListIsSuccess ==
    (ListAnswered /\ DOMAIN events = {}) =>
        /\ ~Failed /\ ErrorText = <<>>
        /\ Outcome.data.items = <<>>
        /\ (req.transport \in {"stdio", "api"} => Contains(Outcome.text, TxtNoEvents))

\* a list over the empty calendar answered with the no-events text
C13_Witness ==
    ListAnswered /\ DOMAIN events = {} /\ Contains(Outcome.text, TxtNoEvents)

\* the last request was a create that the upstream carried out
Created ==
    /\ Invoked /\ req.name \in CreateNames
    /\ \E i \in CalendarCalls : calls[i].api = "insert" /\ calls[i].status = 0

ZoneFor(t) == IF t.timeZone = Absent THEN "America/Sao_Paulo" ELSE t.timeZone

\* C14: every event body a create or an update sends upstream carries, for a
\* start and an end the caller gave, the caller's time zone, and
\* America/Sao_Paulo when the caller gave none.
C14_DefaultTimeZone ==
    (Invoked /\ req.name \in CreateNames \cup UpdateNames) =>
        \A i \in CalendarCalls :
            calls[i].api \in {"insert", "update", "patch"} =>
                /\ req.args.start.given =>
                      calls[i].resource.start.timeZone = ZoneFor(req.args.start)
                /\ req.args.end.given =>
                      calls[i].resource.end.timeZone = ZoneFor(req.args.end)

\* C15: whatever the state, a tool listing is answered without an error and
\* with the whole catalog of the program.
C15_CatalogAlways ==
    act = "toolslist" =>
        /\ resp.body.error = <<>>
        /\ resp.body.data.tools = Catalog(variant)

AuthNames == {"get_auth_url", "get_auth_status"}

\* C16: a get_auth_url or get_auth_status request, as a tool or as a route,
\* issues no upstream call and leaves the stored credential and the
\* authentication flag as they were.
C16_AuthReadsArePure ==
    [][ (act' \in Transports \cup {"authroute"} /\ req'.name \in AuthNames)
            => /\ calls' = <<>>
               /\ UNCHANGED <<tokens, serverTokens, isAuthenticated, events>>
      ]_vars

\* a status read answered while a credential is stored
C16_Witness ==
    /\ act \in Transports \cup {"authroute"} /\ req.name \in AuthNames
    /\ Stored \/ isAuthenticated

\* the consent URL the last response carries
UrlShown == IF req.transport = "mcpcall" THEN resp.inner.data.url ELSE resp.body.data.url

\* C17: a consent URL that is shown is made of the client of the configuration
\* and of the redirect URI the program is run with, asks for offline access
\* and for the calendar scope, whatever is stored and whatever came before.
C17_UrlFromConfigOnly ==
    UrlShown # NoUrl =>
        /\ UrlShown.client_id = (IF variant = "tools" THEN EnvClientId ELSE "client_id")
        /\ UrlShown.redirect_uri =
              (CASE variant = "tools"  -> EnvRedirect
                 [] variant = "legacy" -> RedirectFirst
                 [] OTHER              -> RedirectServer)
        /\ UrlShown.access_type = "offline"
        /\ ScopeCalendar \in UrlShown.scope

\* a consent URL shown while a credential is stored
C17_Witness == UrlShown # NoUrl /\ (Stored \/ isAuthenticated)

\* C19: a restart leaves no credential in the process, and as long as the
\* process has been issued no token since it started, a calendar operation of
\* a configured server ends in a not-authenticated error and gets nothing
\* done upstream.
C19_NothingSurvivesRestart ==
    [][ /\ act' = "Restart" =>
              ~Stored' /\ serverTokens' = <<>> /\ ~isAuthenticated'
        /\ (/\ nextTok' = 0 /\ config = "valid"
            /\ act' \in Transports
            /\ req'.name \in CalendarNames \cap Catalog(variant))
              => /\ SaysNotAuth'
                 /\ \A i \in CalendarCalls' : calls'[i].status # 0
      ]_vars

\* C18: the loader reads the environment variable whenever it is set and the
\* file only when it is not; it returns the document when that source holds
\* an object with client_id, client_secret and redirect_uris, and throws the
\* configuration error for every other content.
C18_LoaderValidates ==
    act = "load" =>
        LET used == IF credEnv # "unset" THEN credEnv ELSE credFile IN
        /\ resp.body.text[1] = (IF credEnv # "unset" THEN "env" ELSE "file")
        /\ IF used = "valid"
           THEN resp.body.error = <<>> /\ resp.body.text = <<resp.body.text[1], "valid">>
           ELSE Contains(resp.body.error, MsgConfig)

\* C21: in the /tools/call server, once the flag is set it stays set through
\* every step but a restart, and no /tools/call made meanwhile is answered 401.
C21_StaysAuthenticated ==
    [][ (variant = "tools" /\ isAuthenticated /\ act' # "Restart")
            => /\ isAuthenticated'
               /\ (act' = "toolscall" => resp'.status # 401)
      ]_vars

\* a /tools/call of the authenticated server that the upstream answered 401
C21_Witness ==
    /\ variant = "tools" /\ isAuthenticated /\ act = "toolscall"
    /\ \E i \in CalendarCalls : calls[i].status = 401

\* the upstream calls of the last request by kind and answer
ExchangeGranted == \E i \in 1..Len(calls) : calls[i].api = "token" /\ calls[i].status = 0
ExchangeRefused == \E i \in 1..Len(calls) : calls[i].api = "token" /\ calls[i].status # 0
RefreshOk       == \E i \in RefreshCalls : calls[i].status = 0
RefreshRefused  == \E i \in RefreshCalls : calls[i].status # 0

\* C22: the store holds at most the one credential under "default"; a step
\* of the running process changes it only as a granted exchange that stores
\* one, a granted refresh that replaces it or a refused refresh that removes
\* it, and each of the three does so.
C22_StoreTransitions ==
    [][ /\ DOMAIN tokens' \subseteq {"default"} /\ Len(serverTokens') <= 1
        /\ (act' # "Restart" /\ <<tokens, serverTokens>>' # <<tokens, serverTokens>>) =>
              \/ act' = "callback" /\ ExchangeGranted'
                               /\ (Stored' \/ serverTokens' # <<>>)
              \/ act' \in Transports /\ RefreshOk' /\ Stored /\ Stored'
              \/ act' \in Transports /\ RefreshRefused' /\ Stored /\ ~Stored'
        /\ (act' = "callback" /\ ExchangeGranted') => (Stored' \/ serverTokens' # <<>>)
        /\ (act' \in Transports /\ RefreshOk') =>
              Stored' /\ tokens'["default"] # tokens["default"]
        /\ (act' \in Transports /\ RefreshRefused') => ~Stored'
      ]_vars

\* a refused exchange answered while a credential is stored
C22_Witness == act = "callback" /\ ExchangeRefused /\ Stored

\* the calendar calls of the last request, in the order issued
CalendarSeq == SelectSeq(calls, LAMBDA c : c.api \in CalendarApis)

\* the calendar calls a tool makes when nothing fails
FullCalls(name) ==
    CASE name \in ListNames   -> <<"list">>
      [] name \in CreateNames -> <<"insert">>
      [] name \in UpdateNames -> <<"get", "update">>
      [] name \in DeleteNames -> <<"get", "delete">>

\* C23: the calendar calls of an invocation are the calls of its tool, in
\* order (one for list and create, get then update, get then delete), cut
\* short only after a call that failed: nothing follows a failed call,
\* nothing is issued twice, and an invocation that ends without an error has
\* issued them all.
C23_CallsPerInvocation ==
    CalendarInvoked =>
        LET full == FullCalls(req.name)
            n    == Len(CalendarSeq)
        IN /\ n <= Len(full)
           /\ \A i \in 1..n : CalendarSeq[i].api = full[i]
           /\ \A i \in 1..n : CalendarSeq[i].status # 0 => i = n
           /\ (n > 0 /\ CalendarSeq[n].status = 0) => n = Len(full)
           /\ (ErrorText = <<>> /\ ~TellsNotFound) => n = Len(full)

\* a delete whose pre-fetch failed
C23_Witness ==
    /\ CalendarInvoked /\ req.name \in DeleteNames
    /\ Len(CalendarSeq) = 1 /\ CalendarSeq[1].status = 500

\* an upstream call that failed otherwise than by a 404 on get, update or delete
PassedOn(c) ==
    /\ c.status # 0
    /\ ~(c.status = 404 /\ c.api \in {"get", "update", "delete"})

\* C26: when an upstream call of a tool invocation, the token refresh
\* included, fails otherwise than by a 404 on get, update or delete, the
\* invocation ends as a failure whose message contains the upstream's message.
C26_UpstreamMessageKept ==
    (Invoked /\ \E i \in 1..Len(calls) : PassedOn(calls[i])) =>
        Failed /\ Contains(ErrorText, MsgUpstream)

\* what update_event must write for a text field and for a date
KeptIfFalsy(given, fetched)  == IF Truthy(given) THEN given ELSE fetched
KeptIfAbsent(given, fetched) == IF given = Absent THEN fetched ELSE given

\* C30: the resource update_event writes takes, field by field, the value
\* given or the fetched one: summary, start and end keep the fetched value
\* when absent or empty, description and location keep it only when absent
\* and become the empty string when given empty.
C30_EmptyStringPerField ==
    [][ (act' \in Transports /\ req'.name = "update_event") =>
          \A i \in CalendarCalls' :
              calls'[i].api = "update" =>
                  LET a == req'.args
                      w == calls'[i].resource
                      f == events[a.eventId]
                  IN /\ w.summary = KeptIfFalsy(a.summary, f.summary)
                     /\ w.description = KeptIfAbsent(a.description, f.description)
                     /\ w.location = KeptIfAbsent(a.location, f.location)
                     /\ w.start.dateTime = KeptIfFalsy(StrOf(a.start), f.start.dateTime)
                     /\ w.end.dateTime = KeptIfFalsy(StrOf(a.end), f.end.dateTime)
                     /\ (~Truthy(StrOf(a.start)) => w.start = f.start)
                     /\ (~Truthy(StrOf(a.end)) => w.end = f.end)
      ]_vars

\* an update carried out with an empty location and an empty end
C30_Witness ==
    /\ Invoked /\ req.name = "update_event"
    /\ req.args.location = "" /\ req.args.end.given /\ req.args.end.dateTime = ""
    /\ \E i \in CalendarCalls : calls[i].api = "update" /\ calls[i].status = 0

\* C25: a code exchange made right after a consent URL was shown, under the
\* same environment, is made with the redirect URI that URL carries.
C25_SameRedirectUri ==
    [][ (UrlShown # NoUrl /\ act' = "callback") =>
          \A i \in 1..Len(calls') :
              calls'[i].api = "token" => calls'[i].redirect_uri = UrlShown.redirect_uri
      ]_vars

\* an exchange granted where the redirect URI comes from BASE_URL
C25_Witness ==
    /\ act = "callback" /\ ExchangeGranted
    /\ env.RENDER_EXTERNAL_URL = Absent /\ env.BASE_URL # Absent
    /\ \E i \in 1..Len(calls) : calls[i].redirect_uri = <<env.BASE_URL, "/auth/callback">>

\* C28: an /auth/callback that is answered with a failure leaves the stored
\* credential and the authentication flag as they were.
C28_FailedCallbackChangesNothing ==
    [][ (act' = "callback" /\ resp'.status >= 400) =>
            UNCHANGED <<tokens, serverTokens, isAuthenticated>>
      ]_vars

\* what a status read answered
ReportsAuth ==
    /\ req.name = "get_auth_status"
    /\ \E t \in {TxtAuthYes, "authenticated", "ready", "server_ready"} :
          Contains(Outcome.text, t)
ReportsNoAuth ==
    /\ req.name = "get_auth_status"
    /\ \E t \in {TxtAuthNo, "not_authenticated", "authentication_required",
                 "server_not_ready"} :
          Contains(Outcome.text, t)

\* the process holds a credential, expired or not
HoldsCredential == IF variant = "tools" THEN isAuthenticated ELSE Stored

\* C29 as stated: a status read reports authenticated exactly when a
\* credential is held, and a calendar operation that comes right after a
\* report of not authenticated ends in a not-authenticated error.
C29_StatusTellsStore ==
    [][ /\ (ReportsAuth' \/ ReportsNoAuth') => (ReportsAuth' <=> HoldsCredential')
        /\ (/\ ReportsNoAuth
            /\ act' \in Transports
            /\ req'.name \in CalendarNames \cap Catalog(variant))
              => SaysNotAuth'
      ]_vars

\* C29 amended: the same, the calendar operation being refused as not
\* authenticated when the client configuration loads; when it does not load
\* the operation fails all the same, without a calendar call.
C29_StatusTellsStoreConfigured ==
    [][ /\ (ReportsAuth' \/ ReportsNoAuth') => (ReportsAuth' <=> HoldsCredential')
        /\ (/\ ReportsNoAuth
            /\ act' \in Transports
            /\ req'.name \in CalendarNames \cap Catalog(variant))
              => /\ config = "valid" => SaysNotAuth'
                 /\ ErrorText' # <<>>
                 /\ CalendarCalls' = {}
      ]_vars

\* a status read that reports authenticated while the stored credential has expired
C29_Witness == ReportsAuth /\ StoredExpired

\* C24: under every interleaving the store is empty or holds one credential
\* exactly as the upstream issued it in one exchange or one refresh, and a
\* calendar call goes out only with a credential the store has held.
C24_SlotNeverMixed ==
    /\ DOMAIN tokens \subseteq {"default"} /\ Len(serverTokens) <= 1
    /\ Holding(tokens, serverTokens) \subseteq race.issued
    /\ \A i \in CalendarCalls :
          \E c \in race.stored : calls[i].cred = c.access_token

\* a calendar call made with a credential that has been replaced meanwhile
C24_Witness ==
    /\ act = "call" /\ CalendarCalls # {}
    /\ Holding(tokens, serverTokens) # {}
    /\ \A c \in Holding(tokens, serverTokens) : calls[1].cred # c.access_token

\* C27: when the refresh of a request is refused while the store holds a
\* credential other than the one the request read, that credential stays
\* stored.
C27_FailureKeepsNewer ==
    [][ \A r \in Reqs :
          (/\ race.pc[r] = "refreshing" /\ race'.pc[r] = "idle"
           /\ Stored /\ tokens["default"] # race.held[r])
              => Stored' /\ tokens' = tokens
      ]_vars

====
